---- MODULE Spec2Model ----
(***************************************************************************)
(* The session engine of the code agent: Session (session.ts), the         *)
(* ToolExecutor (tools.ts), the message/conversation constructors          *)
(* (messages.ts) and the GroqClient completion call with its retry loop.   *)
(*                                                                         *)
(* JavaScript runs each handler to its next await without interleaving,    *)
(* so one action is one such run: from the resumption of an await to the   *)
(* next suspension (a fetch, a backoff timer, a tool body).                *)
(***************************************************************************)
EXTENDS Integers, Sequences, FiniteSets, TLC

\* ---------------------------------------------------------------- bounds
\* operations (sendMessage, streamMessage, executeTool, clear) started on one
\* session
MaxTurns == 2
\* tool calls the remote asks for in the first completions of one session
MaxCalls == 2
\* chunks the remote delivers in the body of one stream
MaxChunks == 2
\* times the server goes from one suspended request to the other
MaxSwitches == 2
\* messages of the terminal client that the server takes
MaxMessages == 1

\* ------------------------------------------------------ program constants
maxRetries == 3

\* ------------------------------------------------------------ JS values
\* undefined / absent property, and null
Undefined == "<undefined>"
Null == "<null>"

\* a || b on strings: the empty string and undefined are falsy
OrElse(a, b) == IF a = Undefined \/ a = Null \/ a = "" THEN b ELSE a

\* crypto.randomUUID(): the n-th identifier drawn
randomUUID(n) == "uuid-" \o ToString(n)

\* --------------------------------------------------------- messages.ts
\* toolCalls, toolResults and tokens are optional: << >> is "absent",
\* tokens is << >> or a one-element sequence
createMessage(id, role, content, toolCalls, toolResults, tokens) ==
  [id |-> id, role |-> role, content |-> content,
   toolCalls |-> toolCalls, toolResults |-> toolResults, tokens |-> tokens]

\* updatedAt counts the times the session stamped the conversation
createConversation(id) ==
  [id |-> id, messages |-> << >>,
   totalTokens |-> [input |-> 0, output |-> 0], updatedAt |-> 0]

systemPrompt == "You are an AI coding assistant"

\* ------------------------------------------------------------ tools.ts
\* a zod object schema: one descriptor per key
Field(key, type, mode) == [key |-> key, type |-> type, mode |-> mode]

bashTool == [name |-> "bash", shape |-> {Field("command", "string", "plain")}]
readFileTool == [name |-> "readFile", shape |-> {Field("path", "string", "plain")}]
writeFileTool ==
  [name |-> "writeFile",
   shape |-> {Field("path", "string", "plain"), Field("content", "string", "plain")}]
listFilesTool == [name |-> "list_files", shape |-> {Field("path", "string", "default")}]
makeDirTool ==
  [name |-> "makeDir",
   shape |-> {Field("path", "string", "plain"), Field("recursive", "boolean", "default")}]

\* mutant: a name that is taken keeps its tool
registerToolKeepsFirst(ts, tool) ==
  IF \E i \in 1..Len(ts) : ts[i].name = tool.name
  THEN ts
  ELSE Append(ts, tool)

\* Map.set on the tools map: a Map keeps the first insertion's position
registerTool(ts, tool) ==
  IF \E i \in 1..Len(ts) : ts[i].name = tool.name
  THEN [i \in 1..Len(ts) |-> IF ts[i].name = tool.name THEN tool ELSE ts[i]]
  ELSE Append(ts, tool)

HasTool(ts, name) == \E i \in 1..Len(ts) : ts[i].name = name
GetTool(ts, name) == ts[CHOOSE i \in 1..Len(ts) : ts[i].name = name]

zodToJsonSchema(shape) ==
  [type |-> "object",
   properties |-> {f.key : f \in {g \in shape : g.type = "string"}},
   required |-> {f.key : f \in {g \in shape : g.type = "string" /\ g.mode = "plain"}}]

getGroqAITools(ts) ==
  [i \in 1..Len(ts) |->
     [type |-> "function", name |-> ts[i].name,
      parameters |-> zodToJsonSchema(ts[i].shape)]]

getTools(ts) == [i \in 1..Len(ts) |-> ts[i].name]

\* parameters are a set of <<key, value>> pairs; tool.parameters.parse
\* rejects an object that lacks a key without default or optional
ParseOk(tool, params) ==
  \A f \in tool.shape : f.mode = "plain" => \E p \in params : p[1] = f.key

ZodErrorMessage == "ZodError: Required"

\* --------------------------------------------- wire-encoded arguments
GoodArgs == "{\"path\":\"a.txt\"}"
EmptyArgs == "{}"
BadArgs == "{\"path\":"

\* JSON.parse of an argument string: ok = FALSE is the SyntaxError
JSONparse(s) ==
  IF s = GoodArgs THEN [ok |-> TRUE, value |-> {<<"path", "a.txt">>}]
  ELSE IF s = EmptyArgs THEN [ok |-> TRUE, value |-> {}]
  ELSE [ok |-> FALSE, value |-> {}]

SyntaxErrorMessage == "JSON Parse error: Unexpected EOF"

\* JSON.stringify of a parameter object
JSONstringifyParams(p) == IF p = {} THEN EmptyArgs ELSE GoodArgs

\* JSON.stringify of a tool output: undefined stays undefined
JSONstringify(v) == IF v = Undefined THEN Undefined ELSE "json:" \o v

\* ------------------------------------------------- the remote's answers
NetErr == [kind |-> "neterr", status |-> 0]
Garbled == [kind |-> "garbled", status |-> 200]
Http(s) == [kind |-> "http", status |-> s]

Failures == {NetErr, Garbled, Http(400), Http(429), Http(500)}

Answers == Failures \cup {Http(200)}

\* a script fixes what the remote answers to the successive requests of one
\* call; an unscripted remote answers each request as it likes
Scripts == [1..maxRetries -> Answers]
Unscripted == << >>

ToolNames == {"readFile", "nope"}

CallKinds ==
  {[name |-> "readFile", arguments |-> GoodArgs],
   [name |-> "readFile", arguments |-> EmptyArgs],
   [name |-> "readFile", arguments |-> BadArgs],
   [name |-> "nope", arguments |-> GoodArgs]}

\* the tool_calls of one response; the remote numbers its calls
WireCalls(kinds, turnNo) ==
  [i \in 1..Len(kinds) |->
     [id |-> "call-" \o ToString(turnNo) \o "-" \o ToString(i),
      type |-> "function",
      function |-> [name |-> kinds[i].name, arguments |-> kinds[i].arguments]]]

CallLists(turnNo, most) ==
  UNION {{WireCalls(ks, turnNo) : ks \in [1..n -> CallKinds]} : n \in 1..most}

NoUsage == << >>
Usage(i, o) == <<[input_tokens |-> i, output_tokens |-> o]>>

\* decoded bodies of a 200 answer
PlainBodies ==
  {[content |-> "ok", usage |-> Usage(1, 2), tool_calls |-> << >>],
   [content |-> Undefined, usage |-> NoUsage, tool_calls |-> << >>]}

ToolBodies(turnNo, most) ==
  {[content |-> Undefined, usage |-> Usage(2, 3), tool_calls |-> cs] :
     cs \in CallLists(turnNo, most)}

NoBody == [content |-> Undefined, usage |-> NoUsage, tool_calls |-> << >>]

\* --------------------------------------------------------- GroqClient
\* mutant: only role and content are sent, as stream does
WireMessageRoleAndContent(msg) ==
  [role |-> msg.role, content |-> msg.content,
   tool_calls |-> << >>, tool_call_id |-> Undefined]

\* messages.map of complete: the wire form of one message
WireMessage(msg) ==
  [role |-> msg.role, content |-> msg.content,
   tool_calls |->
     [i \in 1..Len(msg.toolCalls) |->
        [id |-> msg.toolCalls[i].id, type |-> "function",
         function |-> [name |-> msg.toolCalls[i].name,
                       arguments |-> JSONstringifyParams(msg.toolCalls[i].parameters)]]],
   tool_call_id |->
     IF Len(msg.toolResults) > 0 THEN msg.toolResults[1].id ELSE Undefined]

Payload(messages, ts) ==
  [messages |-> [i \in 1..Len(messages) |-> WireMessage(messages[i])],
   stream |-> FALSE,
   tools |-> IF Len(ts) > 0 THEN ts ELSE << >>,
   tool_choice |-> IF Len(ts) > 0 THEN "auto" ELSE Undefined]

\* JSON.stringify of one message of the payload, given by the members of
\* the resulting object text: a key that was never set, or whose value is
\* undefined, is not written
JSONstringifyMessage(groqMsg) ==
  [key \in {k \in {"role", "content", "tool_call_id"} : groqMsg[k] # Undefined}
             \cup (IF Len(groqMsg.tool_calls) > 0 THEN {"tool_calls"} ELSE {})
     |-> groqMsg[key]]

\* the body of the request: JSON.stringify(payload), messages only
RequestBody(payload) ==
  [i \in 1..Len(payload.messages) |-> JSONstringifyMessage(payload.messages[i])]

\* the GroqResponse built from a decoded body
ParseBody(body) ==
  [content |-> OrElse(body.content, ""),
   tokens |->
     [input |-> IF body.usage = NoUsage THEN 0 ELSE body.usage[1].input_tokens,
      output |-> IF body.usage = NoUsage THEN 0 ELSE body.usage[1].output_tokens],
   toolCalls |-> body.tool_calls]

NoResponse ==
  [content |-> Undefined, tokens |-> [input |-> 0, output |-> 0], toolCalls |-> << >>]

NoRet == [kind |-> "none", response |-> NoResponse, error |-> Undefined]
Returned(r) == [kind |-> "ok", response |-> r, error |-> Undefined]
Thrown(e) == [kind |-> "error", response |-> NoResponse, error |-> e]

IsOk(answer) == answer.kind # "neterr" /\ answer.status >= 200 /\ answer.status <= 299

IsRetryable(status) == status = 429 \/ status >= 500

ErrorOf(answer) ==
  IF answer.kind = "neterr" THEN "fetch failed"
  ELSE IF answer.kind = "garbled" THEN "JSON Parse error"
  ELSE "Groq API error: " \o ToString(answer.status)

ExhaustedMessage(lastError) ==
  "Failed to complete with Groq after " \o ToString(maxRetries) \o " attempts: "
    \o OrElse(lastError, "Unknown error")

\* the for statement's condition
LoopTest(attempt) == attempt < maxRetries

IdleClient ==
  [cpc |-> "idle", script |-> << >>, attempt |-> 0, requests |-> 0,
   lastError |-> Null, delays |-> << >>, payload |-> << >>, ret |-> NoRet]

\* complete up to its first fetch
BeginComplete(messages, ts, script) ==
  IF LoopTest(1)
  THEN [cpc |-> "fetch", script |-> script, attempt |-> 1, requests |-> 0,
        lastError |-> Null, delays |-> << >>,
        payload |-> Payload(messages, ts), ret |-> NoRet]
  ELSE [cpc |-> "done", script |-> script, attempt |-> 1, requests |-> 0,
        lastError |-> Null, delays |-> << >>,
        payload |-> Payload(messages, ts), ret |-> Thrown(ExhaustedMessage(Null))]

\* the answers the remote may give to the next request of call c
AnswersTo(c) ==
  IF Len(c.script) = 0 THEN Answers
  ELSE IF c.requests + 1 <= Len(c.script) THEN {c.script[c.requests + 1]}
  ELSE {Http(200)}

\* the catch block of the retry loop
Catch(c, error) ==
  IF c.attempt < maxRetries
  THEN [c EXCEPT !.lastError = error,
                 !.delays = Append(@, (2 ^ c.attempt) * 1000),
                 !.cpc = "backoff"]
  ELSE [c EXCEPT !.lastError = error, !.cpc = "done",
                 !.ret = Thrown(ExhaustedMessage(error))]

\* the !response.ok block: a retryable status waits and continues, anything
\* else is thrown, and the throw lands in the catch block of the same try
NotOk(c, answer) ==
  IF IsRetryable(answer.status)
  THEN IF c.attempt < maxRetries
       THEN [c EXCEPT !.lastError = ErrorOf(answer),
                      !.delays = Append(@, (2 ^ c.attempt) * 1000),
                      !.cpc = "backoff"]
       ELSE Catch([c EXCEPT !.lastError = ErrorOf(answer)], ErrorOf(answer))
  ELSE Catch(c, ErrorOf(answer))

\* one pass of the try block on the answer to this request
Attempt(c, answer, body) ==
  IF answer.kind = "neterr" THEN Catch(c, ErrorOf(answer))
  ELSE IF ~IsOk(answer) THEN NotOk(c, answer)
  ELSE IF answer.kind = "garbled" THEN Catch(c, ErrorOf(answer))
  ELSE [c EXCEPT !.cpc = "done", !.ret = Returned(ParseBody(body))]

\* continue: attempt++, then the loop test; leaving the loop throws
Continue(c) ==
  IF LoopTest(c.attempt + 1)
  THEN [c EXCEPT !.attempt = @ + 1, !.cpc = "fetch"]
  ELSE [c EXCEPT !.attempt = @ + 1, !.cpc = "done",
                 !.ret = Thrown(ExhaustedMessage(c.lastError))]

\* ------------------------------------------------ GroqClient streaming
\* messages.map of stream: only role and content go on the wire
StreamWireMessage(msg) == [role |-> msg.role, content |-> msg.content]

StreamPayload(messages) ==
  [messages |-> [i \in 1..Len(messages) |-> StreamWireMessage(messages[i])],
   stream |-> TRUE]

\* String.prototype.indexOf("\n") + 1: 0 when there is none
IndexOfNewline(s) ==
  LET at == {i \in 1..Len(s) : SubSeq(s, i, i) = "\n"}
  IN IF at = {} THEN 0 ELSE CHOOSE i \in at : \A j \in at : i <= j

\* buffer.split("\n")
RECURSIVE split(_)
split(s) ==
  LET at == IndexOfNewline(s)
  IN IF at = 0 THEN <<s>>
     ELSE <<SubSeq(s, 1, at - 1)>> \o split(SubSeq(s, at + 1, Len(s)))

startsWith(line, prefix) ==
  Len(line) >= Len(prefix) /\ SubSeq(line, 1, Len(prefix)) = prefix

slice(line, from) == SubSeq(line, from + 1, Len(line))

\* the text deltas an event may carry
Texts == {"a", "b"}

\* the JSON of a chat.completion.chunk event whose delta has this content
EventJson(text) ==
  "{\"choices\":[{\"delta\":{\"content\":\"" \o text \o "\"}}]}"

\* JSON.parse(data) followed by parsed.choices[0]?.delta?.content || "";
\* anything that is not such an event makes the try block throw
DeltaOf(data) ==
  IF \E text \in Texts \cup {""} : data = EventJson(text)
  THEN [ok |-> TRUE,
        content |-> CHOOSE text \in Texts \cup {""} : data = EventJson(text)]
  ELSE [ok |-> FALSE, content |-> ""]

Terminator == "[DONE]"

\* mutant: the terminator line is passed over like any other line
RECURSIVE ScanLinesPastTerminator(_)
ScanLinesPastTerminator(lines) ==
  IF Len(lines) = 0 THEN [kind |-> "exhausted", content |-> "", rest |-> << >>]
  ELSE LET line == Head(lines)
           data == SubSeq(line, 7, Len(line))
       IN IF ~(Len(line) >= 4 /\ SubSeq(line, 1, 4) = "data")
          THEN ScanLinesPastTerminator(Tail(lines))
          ELSE IF \E text \in {"a", "b"} :
                    data = "{\"choices\":[{\"delta\":{\"content\":\"" \o text \o "\"}}]}"
          THEN [kind |-> "yield",
                content |-> CHOOSE text \in {"a", "b"} :
                  data = "{\"choices\":[{\"delta\":{\"content\":\"" \o text \o "\"}}]}",
                rest |-> Tail(lines)]
          ELSE ScanLinesPastTerminator(Tail(lines))

\* the for loop over lines, run until it yields, returns or runs out of lines
RECURSIVE ScanLines(_)
ScanLines(lines) ==
  IF Len(lines) = 0 THEN [kind |-> "exhausted", content |-> "", rest |-> << >>]
  ELSE LET line == Head(lines)
           data == slice(line, 6)
       IN IF ~startsWith(line, "data") THEN ScanLines(Tail(lines))
          ELSE IF data = Terminator
          THEN [kind |-> "return", content |-> "", rest |-> << >>]
          ELSE IF DeltaOf(data).ok /\ DeltaOf(data).content # ""
          THEN [kind |-> "yield", content |-> DeltaOf(data).content,
                rest |-> Tail(lines)]
          ELSE ScanLines(Tail(lines))

\* buffer += chunk, lines = buffer.split("\n"), buffer = lines.pop() || ""
Buffered(buffer, chunk) ==
  LET lines == split(buffer \o chunk)
  IN [lines |-> SubSeq(lines, 1, Len(lines) - 1), buffer |-> lines[Len(lines)]]

\* the locals of stream and parseStream; reader is none until getReader,
\* then locked, then released; received, yielded and releases record the
\* text read so far, the fragments handed out and the releaseLock calls
NoStream ==
  [reader |-> "none", buffer |-> "", lines |-> << >>, reads |-> 0,
   received |-> "", yielded |-> << >>, releases |-> 0, payload |-> << >>]

BeginStream(messages) == [NoStream EXCEPT !.payload = StreamPayload(messages)]

\* the finally block of parseStream
releaseLock(st) == [st EXCEPT !.reader = "released", !.releases = @ + 1]

\* what the remote answers to the stream request: 204 has no body
StreamAnswers == {NetErr, Http(400), Http(204), Http(200)}

Event(text) == "data: " \o EventJson(text) \o "\n\n"

\* what one read of the body may deliver
Chunks ==
  {Event("a"),
   SubSeq(Event("b"), 1, 20),
   SubSeq(Event("b"), 21, Len(Event("b"))),
   "data: " \o Terminator \o "\n\n" \o Event("a"),
   "data: {\"choices\"\n\n" \o Event("b"),
   "data: " \o EventJson("b")}

\* ------------------------------------------------------- ToolExecutor
NoExecRet == [kind |-> "none", error |-> Undefined]
ExecReturned == [kind |-> "ok", error |-> Undefined]
ExecThrown(e) == [kind |-> "error", error |-> e]

\* body records how the tool's own execute function settled
NoBodyYet == [kind |-> "none", value |-> Undefined]

IdleExec ==
  [epc |-> "idle", index |-> 0, name |-> Undefined, body |-> NoBodyYet,
   ret |-> NoExecRet]

\* stateLog lists every value assigned to state, ran tells whether the
\* tool's execute function was called
NewExecution(id, name, params) ==
  [id |-> id, name |-> name, state |-> "pending", input |-> params,
   output |-> Undefined, error |-> Undefined, endTime |-> Undefined,
   stateLog |-> <<"pending">>, ran |-> FALSE]

SetState(e, s) == [e EXCEPT !.state = s, !.stateLog = Append(@, s)]

Completed(e, result) == [SetState(e, "completed") EXCEPT !.output = result]
Failed(e, message) == [SetState(e, "error") EXCEPT !.error = message]
\* mutant: endTime is set at the end of the try block, not in finally
FinallyInTry(e) == IF e.state = "completed" THEN [e EXCEPT !.endTime = "now"] ELSE e

Finally(e) == [e EXCEPT !.endTime = "now"]

NotFoundMessage(name) == "Tool " \o name \o " not found"

\* mutant: the parameters are parsed outside the try block
ExecuteParseOutsideTry(ts, execs, n, name, params) ==
  IF ~HasTool(ts, name)
  THEN [executions |-> execs, uuid |-> n,
        exec |-> [epc |-> "done", index |-> 0, name |-> name,
                  body |-> NoBodyYet, ret |-> ExecThrown(NotFoundMessage(name))]]
  ELSE LET tool == GetTool(ts, name)
           running == SetState(NewExecution(randomUUID(n + 1), tool.name, params),
                               "running")
       IN IF ParseOk(tool, params)
          THEN [executions |-> Append(execs, [running EXCEPT !.ran = TRUE]),
                uuid |-> n + 1,
                exec |-> [epc |-> "tool", index |-> Len(execs) + 1, name |-> name,
                          body |-> NoBodyYet, ret |-> NoExecRet]]
          ELSE [executions |-> Append(execs, running),
                uuid |-> n + 1,
                exec |-> [epc |-> "done", index |-> Len(execs) + 1, name |-> name,
                          body |-> NoBodyYet, ret |-> ExecThrown(ZodErrorMessage)]]

\* execute up to its await of the tool body, or to its return or throw;
\* n identifiers have been drawn so far
Execute(ts, execs, n, name, params) ==
  IF ~HasTool(ts, name)
  THEN [executions |-> execs, uuid |-> n,
        exec |-> [epc |-> "done", index |-> 0, name |-> name,
                  body |-> NoBodyYet, ret |-> ExecThrown(NotFoundMessage(name))]]
  ELSE LET tool == GetTool(ts, name)
           running == SetState(NewExecution(randomUUID(n + 1), tool.name, params),
                               "running")
       IN IF ParseOk(tool, params)
          THEN [executions |-> Append(execs, [running EXCEPT !.ran = TRUE]),
                uuid |-> n + 1,
                exec |-> [epc |-> "tool", index |-> Len(execs) + 1, name |-> name,
                          body |-> NoBodyYet, ret |-> NoExecRet]]
          ELSE [executions |-> Append(execs, Finally(Failed(running, ZodErrorMessage))),
                uuid |-> n + 1,
                exec |-> [epc |-> "done", index |-> Len(execs) + 1, name |-> name,
                          body |-> NoBodyYet, ret |-> ExecReturned]]

\* what the body of a built-in tool can do
ToolOutputs(name) == {"out:" \o name}
ToolErrors(name) == IF name = "readFile" THEN {"File not found: a.txt"} ELSE {}

\* ------------------------------------------------- the terminal client
\* at is where runTUI stands, serverUp whether the server process runs,
\* globalServerCmd whether the client holds a process it started, left how
\* the client process ended, said what the last command printed; of
\* handleMessage: indicator is where the progress goroutine stands, tick
\* whether ticker.C holds a tick, dotted whether a dot was printed, sentAt
\* how many operations the server had taken when the request left, err
\* whether SendMessage returned an error
NoTui ==
  [at |-> "none", serverUp |-> FALSE, globalServerCmd |-> FALSE,
   left |-> "none", said |-> "none",
   indicator |-> "none", tick |-> FALSE, dotted |-> FALSE, sentAt |-> 0,
   err |-> FALSE]

\* ------------------------------------------------------------ the state
VARIABLES
  conversation,  \* Session.conversation
  tools,         \* ToolExecutor.tools, in Map order
  executions,    \* ToolExecutor.executions, in Map order
  uuid,          \* identifiers drawn from crypto.randomUUID so far
  pc,            \* where the session's operation in flight is suspended
  turn,          \* locals of the operation in flight, and its record once over
  client,        \* locals of the complete call in flight
  exec,          \* the execute call in flight
  ops,           \* operations started
  reported,      \* sum of the token counts of every response complete returned
  asked,         \* tool calls the first completions have carried
  tui,           \* the terminal client's process and the server process it uses
  parked         \* the other request the server is handling, suspended

vars ==
  <<conversation, tools, executions, uuid, pc, turn, client, exec, ops, reported,
    asked, tui, parked>>

UserTexts == {"hi"}

GoodParams == {<<"path", "a.txt">>}
ParamSets == {GoodParams, {}}

\* startLen, startTokens, startExecs, completes and outcomes record the turn
\* for the properties: the transcript length, the counters and the number of
\* executions when the operation began, the complete invocations made, how
\* each execute call ended
NoTurn ==
  [op |-> "none", status |-> "none", content |-> Undefined,
   response |-> NoResponse, finalResponse |-> NoResponse, i |-> 0,
   result |-> << >>, error |-> Undefined,
   assistantContent |-> "", stream |-> NoStream,
   startLen |-> 0, startTokens |-> [input |-> 0, output |-> 0],
   startExecs |-> 0, completes |-> 0, outcomes |-> << >>,
   conversationId |-> Undefined]

BeginTurn(op, content) ==
  [NoTurn EXCEPT !.op = op, !.status = "running", !.content = content,
                 !.startLen = Len(conversation.messages),
                 !.startTokens = conversation.totalTokens,
                 !.startExecs = Len(executions),
                 !.conversationId = conversation.id]

\* a request handler that is not running an operation
\* switches counts how often the event loop went from one request to the other
NoRequest ==
  [pc |-> "idle", turn |-> NoTurn, client |-> IdleClient, exec |-> IdleExec,
   switches |-> 0]

\* the Session constructor
NewSession ==
  /\ conversation =
       [createConversation(randomUUID(1)) EXCEPT
          !.messages = <<createMessage(randomUUID(2), "system", systemPrompt,
                                       << >>, << >>, << >>)>>]
  /\ tools =
       registerTool(registerTool(registerTool(registerTool(registerTool(
         << >>, bashTool), readFileTool), writeFileTool), listFilesTool), makeDirTool)
  /\ executions = << >>
  /\ uuid = 2
  /\ turn = NoTurn
  /\ exec = IdleExec
  /\ ops = 0
  /\ reported = [input |-> 0, output |-> 0]
  /\ asked = 0
  /\ tui = NoTui
  /\ parked = NoRequest

Init ==
  /\ NewSession
  /\ pc = "idle"
  /\ client = IdleClient

\* GroqClient.complete called on its own, against a scripted remote
ClientInit ==
  /\ NewSession
  /\ pc = "complete"
  /\ \E script \in Scripts :
       client = BeginComplete(conversation.messages, getGroqAITools(tools), script)

\* bodies the remote may send in answer to the completion in flight
Bodies ==
  IF pc # "await2"
  THEN PlainBodies \cup ToolBodies(ops, MaxCalls - asked)
  ELSE PlainBodies
         \cup {[content |-> "ok", usage |-> Usage(1, 2),
                tool_calls |->
                  WireCalls(<<[name |-> "readFile", arguments |-> GoodArgs]>>, ops)]}

\* ---------------------------------------------------------- GroqClient
\* one HTTP request of complete and the handling of its answer
Fetch ==
  /\ client.cpc = "fetch"
  /\ \E answer \in AnswersTo(client) :
       LET c == [client EXCEPT !.requests = @ + 1]
       IN IF IsOk(answer) /\ answer.kind = "http"
          THEN \E body \in Bodies : client' = Attempt(c, answer, body)
          ELSE client' = Attempt(c, answer, NoBody)
  /\ reported' =
       IF client'.ret.kind = "ok"
       THEN [input |-> reported.input + client'.ret.response.tokens.input,
             output |-> reported.output + client'.ret.response.tokens.output]
       ELSE reported
  /\ UNCHANGED <<conversation, tools, executions, uuid, pc, turn, exec, ops, asked>>
  /\ UNCHANGED <<tui, parked>>

\* the backoff timer fires
Backoff ==
  /\ client.cpc = "backoff"
  /\ client' = Continue(client)
  /\ UNCHANGED <<conversation, tools, executions, uuid, pc, turn, exec, ops, reported, asked>>
  /\ UNCHANGED <<tui, parked>>

\* -------------------------------------------------------- ToolExecutor
\* the tool body resolves
ToolReturns ==
  /\ exec.epc = "tool"
  /\ \E result \in ToolOutputs(exec.name) :
       /\ executions' = [executions EXCEPT ![exec.index] = Finally(Completed(@, result))]
       /\ exec' = [exec EXCEPT !.epc = "done", !.ret = ExecReturned,
                               !.body = [kind |-> "returned", value |-> result]]
  /\ UNCHANGED <<conversation, tools, uuid, pc, turn, client, ops, reported, asked>>
  /\ UNCHANGED <<tui, parked>>

\* the tool body rejects
ToolThrows ==
  /\ exec.epc = "tool"
  /\ \E message \in ToolErrors(exec.name) :
       /\ executions' = [executions EXCEPT ![exec.index] = Finally(Failed(@, message))]
       /\ exec' = [exec EXCEPT !.epc = "done", !.ret = ExecReturned,
                               !.body = [kind |-> "threw", value |-> message]]
  /\ UNCHANGED <<conversation, tools, uuid, pc, turn, client, ops, reported, asked>>
  /\ UNCHANGED <<tui, parked>>

\* ------------------------------------------------- Session.sendMessage
AssistantMessage(id, content, tokens, toolCalls) ==
  createMessage(id, "assistant", content, toolCalls, << >>, <<tokens>>)

\* mutant: the result is filed under the execution's id, as executeTool does
ToolMessageOwnId(id, callId, execution) ==
  createMessage(id, "tool", JSONstringify(execution.output), << >>,
                <<[id |-> execution.id, result |-> execution.output,
                   error |-> execution.error]>>, << >>)

ToolMessage(id, callId, execution) ==
  createMessage(id, "tool", JSONstringify(execution.output), << >>,
                <<[id |-> callId, result |-> execution.output,
                   error |-> execution.error]>>, << >>)

\* mutant: the final message carries the second response's tool calls
FinalMessageWithCalls(id, finalResponse) ==
  createMessage(id, "assistant", OrElse(finalResponse.content, ""),
                [i \in 1..Len(finalResponse.toolCalls) |->
                   [id |-> finalResponse.toolCalls[i].id,
                    name |-> finalResponse.toolCalls[i].function.name,
                    parameters |->
                      JSONparse(finalResponse.toolCalls[i].function.arguments).value]],
                << >>, <<finalResponse.tokens>>)

\* the final assistant message: content and tokens only
FinalMessage(id, finalResponse) ==
  createMessage(id, "assistant", OrElse(finalResponse.content, ""), << >>, << >>,
                <<finalResponse.tokens>>)

\* mutant: the total leaves the output tokens out
getTokenUsageInputOnly(conv) ==
  [input |-> conv.totalTokens.input, output |-> conv.totalTokens.output,
   total |-> conv.totalTokens.input]

getTokenUsage(conv) ==
  [input |-> conv.totalTokens.input, output |-> conv.totalTokens.output,
   total |-> conv.totalTokens.input + conv.totalTokens.output]

\* mutant: the caught message goes into the content only
ErrorToolMessageContentOnly(id, callId, message) ==
  createMessage(id, "tool", "json:{error:" \o message \o "}", << >>,
                <<[id |-> callId, result |-> Null, error |-> Undefined]>>, << >>)

\* the message the catch block of the loop body builds
ErrorToolMessage(id, callId, message) ==
  createMessage(id, "tool", "json:{error:" \o message \o "}", << >>,
                <<[id |-> callId, result |-> Null, error |-> message]>>, << >>)

\* mutant: only the first call's arguments are decoded up front
DecodeCallsFirstOnly(calls) ==
  [ok |-> JSONparse(calls[1].function.arguments).ok,
   value |-> [i \in 1..Len(calls) |->
                [id |-> calls[i].id, name |-> calls[i].function.name,
                 parameters |-> JSONparse(calls[i].function.arguments).value]]]

\* toolCalls.map of the assistant message; ok is FALSE when a JSON.parse throws
DecodeCalls(calls) ==
  [ok |-> \A i \in 1..Len(calls) : JSONparse(calls[i].function.arguments).ok,
   value |-> [i \in 1..Len(calls) |->
                [id |-> calls[i].id, name |-> calls[i].function.name,
                 parameters |-> JSONparse(calls[i].function.arguments).value]]]

\* the try block of the loop body for one tool call, up to its await
StartCall(execs, n, call) ==
  IF JSONparse(call.function.arguments).ok
  THEN Execute(tools, execs, n, call.function.name,
               JSONparse(call.function.arguments).value)
  ELSE [executions |-> execs, uuid |-> n,
        exec |-> [epc |-> "done", index |-> 0, name |-> call.function.name,
                  body |-> NoBodyYet, ret |-> ExecThrown(SyntaxErrorMessage)]]

\* what the loop body appends once the call has settled
SettledMessage(id, call) ==
  IF exec.ret.kind = "ok"
  THEN ToolMessage(id, call.id, executions[exec.index])
  ELSE ErrorToolMessage(id, call.id, exec.ret.error)

Outcome == IF exec.ret.kind = "ok" THEN executions[exec.index].state ELSE "thrown"

\* mutant: = in place of +=
AddTokensAssign(total, a, b) ==
  [input |-> a.input + b.input, output |-> a.output + b.output]

\* mutant: the second response's tokens are left out
AddTokensFirstOnly(total, a, b) ==
  [input |-> total.input + a.input, output |-> total.output + a.output]

\* totalTokens += a + b
AddTokens(total, a, b) ==
  [input |-> total.input + a.input + b.input,
   output |-> total.output + a.output + b.output]

NoTokens == [input |-> 0, output |-> 0]

\* push the user message and call complete
SendMessage ==
  /\ pc = "idle" /\ ops < MaxTurns
  /\ \E content \in UserTexts :
       LET messages ==
             Append(conversation.messages,
                    createMessage(randomUUID(uuid + 1), "user", content,
                                  << >>, << >>, << >>))
       IN /\ conversation' = [conversation EXCEPT !.messages = messages]
          /\ client' = BeginComplete(messages, getGroqAITools(tools), Unscripted)
          /\ turn' = [BeginTurn("sendMessage", content) EXCEPT !.completes = 1]
  /\ uuid' = uuid + 1
  /\ pc' = "await1"
  /\ ops' = ops + 1
  /\ UNCHANGED <<tools, executions, exec, reported, asked>>
  /\ UNCHANGED <<tui, parked>>

\* mutant: a failed turn takes back what it had appended
CompletionFailsRollsBack ==
  /\ pc \in {"await1", "await2"} /\ client.cpc = "done" /\ client.ret.kind = "error"
  /\ turn' = [turn EXCEPT !.status = "failed", !.error = client.ret.error]
  /\ conversation' =
       [conversation EXCEPT !.messages = SubSeq(@, 1, turn.startLen)]
  /\ pc' = "idle"
  /\ client' = IdleClient
  /\ UNCHANGED <<tools, executions, uuid, exec, ops, reported, asked>>
  /\ UNCHANGED <<tui, parked>>

\* a complete call throws: sendMessage rejects
CompletionFails ==
  /\ pc \in {"await1", "await2"} /\ client.cpc = "done" /\ client.ret.kind = "error"
  /\ turn' = [turn EXCEPT !.status = "failed", !.error = client.ret.error]
  /\ pc' = "idle"
  /\ client' = IdleClient
  /\ UNCHANGED <<conversation, tools, executions, uuid, exec, ops, reported, asked>>
  /\ UNCHANGED <<tui, parked>>

\* the else branch: no tool calls
NoToolCalls ==
  /\ pc = "await1" /\ client.cpc = "done" /\ client.ret.kind = "ok"
  /\ ~(Len(client.ret.response.toolCalls) > 0)
  /\ LET response == client.ret.response
         assistantMessage ==
           AssistantMessage(randomUUID(uuid + 1), response.content,
                            response.tokens, << >>)
     IN /\ conversation' =
             [conversation EXCEPT
                !.messages = Append(@, assistantMessage),
                !.totalTokens = AddTokens(@, response.tokens, NoTokens),
                !.updatedAt = @ + 1]
        /\ turn' = [turn EXCEPT !.status = "returned", !.response = response,
                                !.result = <<assistantMessage>>]
  /\ uuid' = uuid + 1
  /\ pc' = "idle"
  /\ client' = IdleClient
  /\ UNCHANGED <<tools, executions, exec, ops, reported, asked>>
  /\ UNCHANGED <<tui, parked>>

\* tool calls whose arguments do not all decode: the map throws
ToolCallsUndecodable ==
  /\ pc = "await1" /\ client.cpc = "done" /\ client.ret.kind = "ok"
  /\ Len(client.ret.response.toolCalls) > 0
  /\ ~DecodeCalls(client.ret.response.toolCalls).ok
  /\ turn' = [turn EXCEPT !.status = "failed", !.error = SyntaxErrorMessage]
  /\ pc' = "idle"
  /\ client' = IdleClient
  /\ asked' = asked + Len(client.ret.response.toolCalls)
  /\ UNCHANGED <<conversation, tools, executions, uuid, exec, ops, reported>>
  /\ UNCHANGED <<tui, parked>>

\* push the assistant message with its calls and start the first call
ToolCallsPending ==
  /\ pc = "await1" /\ client.cpc = "done" /\ client.ret.kind = "ok"
  /\ Len(client.ret.response.toolCalls) > 0
  /\ DecodeCalls(client.ret.response.toolCalls).ok
  /\ LET response == client.ret.response
         assistantMessage ==
           AssistantMessage(randomUUID(uuid + 1), OrElse(response.content, ""),
                            response.tokens, DecodeCalls(response.toolCalls).value)
         started == StartCall(executions, uuid + 1, response.toolCalls[1])
     IN /\ conversation' = [conversation EXCEPT !.messages = Append(@, assistantMessage)]
        /\ turn' = [turn EXCEPT !.response = response, !.i = 1]
        /\ executions' = started.executions
        /\ exec' = started.exec
        /\ uuid' = started.uuid
  /\ pc' = "tools"
  /\ client' = IdleClient
  /\ asked' = asked + Len(client.ret.response.toolCalls)
  /\ UNCHANGED <<tools, ops, reported>>
  /\ UNCHANGED <<tui, parked>>

\* mutant: the next call is started without the settled call's message
NextToolCallSkipsMessage ==
  /\ pc = "tools" /\ exec.epc = "done"
  /\ turn.i < Len(turn.response.toolCalls)
  /\ LET started == StartCall(executions, uuid + 1, turn.response.toolCalls[turn.i + 1])
     IN /\ turn' = [turn EXCEPT !.i = @ + 1, !.outcomes = Append(@, Outcome)]
        /\ executions' = started.executions
        /\ exec' = started.exec
        /\ uuid' = started.uuid
  /\ UNCHANGED <<conversation, tools, pc, client, ops, reported, asked>>
  /\ UNCHANGED <<tui, parked>>

\* a call has settled and another follows: push its message, start the next
NextToolCall ==
  /\ pc = "tools" /\ exec.epc = "done"
  /\ turn.i < Len(turn.response.toolCalls)
  /\ LET started == StartCall(executions, uuid + 1, turn.response.toolCalls[turn.i + 1])
     IN /\ conversation' =
             [conversation EXCEPT
                !.messages = Append(@, SettledMessage(randomUUID(uuid + 1),
                                                      turn.response.toolCalls[turn.i]))]
        /\ turn' = [turn EXCEPT !.i = @ + 1, !.outcomes = Append(@, Outcome)]
        /\ executions' = started.executions
        /\ exec' = started.exec
        /\ uuid' = started.uuid
  /\ UNCHANGED <<tools, pc, client, ops, reported, asked>>
  /\ UNCHANGED <<tui, parked>>

\* the last call has settled: push its message, call complete again
SecondCompletionRequested ==
  /\ pc = "tools" /\ exec.epc = "done"
  /\ ~(turn.i < Len(turn.response.toolCalls))
  /\ LET messages ==
           Append(conversation.messages,
                  SettledMessage(randomUUID(uuid + 1), turn.response.toolCalls[turn.i]))
     IN /\ conversation' = [conversation EXCEPT !.messages = messages]
        /\ client' = BeginComplete(messages, getGroqAITools(tools), Unscripted)
  /\ turn' = [turn EXCEPT !.outcomes = Append(@, Outcome), !.completes = @ + 1]
  /\ exec' = IdleExec
  /\ uuid' = uuid + 1
  /\ pc' = "await2"
  /\ UNCHANGED <<tools, executions, ops, reported, asked>>
  /\ UNCHANGED <<tui, parked>>

\* the second completion returns: push the final message, add the tokens
TurnComplete ==
  /\ pc = "await2" /\ client.cpc = "done" /\ client.ret.kind = "ok"
  /\ LET finalResponse == client.ret.response
         finalMessage == FinalMessage(randomUUID(uuid + 1), finalResponse)
     IN /\ conversation' =
             [conversation EXCEPT
                !.messages = Append(@, finalMessage),
                !.totalTokens = AddTokens(@, turn.response.tokens, finalResponse.tokens),
                !.updatedAt = @ + 1]
        /\ turn' = [turn EXCEPT !.status = "returned", !.finalResponse = finalResponse,
                                !.result = <<finalMessage>>]
  /\ uuid' = uuid + 1
  /\ pc' = "idle"
  /\ client' = IdleClient
  /\ UNCHANGED <<tools, executions, exec, ops, reported, asked>>
  /\ UNCHANGED <<tui, parked>>

\* ------------------------------------------------- Session.executeTool
ExecuteTool ==
  /\ pc = "idle" /\ ops < MaxTurns
  /\ \E name \in ToolNames, params \in ParamSets :
       LET started == Execute(tools, executions, uuid, name, params)
       IN /\ executions' = started.executions
          /\ exec' = started.exec
          /\ uuid' = started.uuid
  /\ turn' = BeginTurn("executeTool", Undefined)
  /\ pc' = "execTool"
  /\ ops' = ops + 1
  /\ UNCHANGED <<conversation, tools, client, reported, asked>>
  /\ UNCHANGED <<tui, parked>>

\* execute returned: push the tool message and return the execution
ExecuteToolReturns ==
  /\ pc = "execTool" /\ exec.epc = "done" /\ exec.ret.kind = "ok"
  /\ LET execution == executions[exec.index]
     IN /\ conversation' =
             [conversation EXCEPT
                !.messages = Append(@, ToolMessage(randomUUID(uuid + 1),
                                                   execution.id, execution)),
                !.updatedAt = @ + 1]
        /\ turn' = [turn EXCEPT !.status = "returned", !.result = <<execution>>,
                                !.outcomes = <<Outcome>>]
  /\ uuid' = uuid + 1
  /\ pc' = "idle"
  /\ exec' = IdleExec
  /\ UNCHANGED <<tools, executions, client, ops, reported, asked>>
  /\ UNCHANGED <<tui, parked>>

\* execute threw: executeTool rejects
ExecuteToolFails ==
  /\ pc = "execTool" /\ exec.epc = "done" /\ exec.ret.kind = "error"
  /\ turn' = [turn EXCEPT !.status = "failed", !.error = exec.ret.error,
                          !.outcomes = <<Outcome>>]
  /\ pc' = "idle"
  /\ exec' = IdleExec
  /\ UNCHANGED <<conversation, tools, executions, uuid, client, ops, reported, asked>>
  /\ UNCHANGED <<tui, parked>>

\* ------------------------------------------- ToolExecutor.registerTool
\* tools a caller may register: under a built-in's name and under a new
\* name, each with and without a required parameter
ToolsToRegister ==
  {readFileTool,
   [name |-> "readFile", shape |-> {Field("path", "string", "default")}],
   [name |-> "nope", shape |-> {Field("path", "string", "plain")}],
   [name |-> "nope", shape |-> {Field("path", "string", "default")}]}

\* registerTool(tool) on the session's executor; turn records the tool
RegisterTool ==
  /\ pc = "idle" /\ ops < MaxTurns
  /\ \E tool \in ToolsToRegister :
       /\ tools' = registerTool(tools, tool)
       /\ turn' = [BeginTurn("registerTool", Undefined) EXCEPT
                     !.status = "returned", !.result = <<tool>>]
  /\ ops' = ops + 1
  /\ UNCHANGED <<conversation, executions, uuid, pc, client, exec, reported, asked>>
  /\ UNCHANGED <<tui, parked>>

\* ----------------------------------------------- Session.streamMessage
\* the consumer's first next(): push the user message and call stream,
\* which sends its request
StreamMessage ==
  /\ pc = "idle" /\ ops < MaxTurns
  /\ \E content \in UserTexts :
       LET messages ==
             Append(conversation.messages,
                    createMessage(randomUUID(uuid + 1), "user", content,
                                  << >>, << >>, << >>))
       IN /\ conversation' = [conversation EXCEPT !.messages = messages]
          /\ turn' = [BeginTurn("streamMessage", content) EXCEPT
                        !.stream = BeginStream(messages)]
  /\ uuid' = uuid + 1
  /\ pc' = "streamOpen"
  /\ ops' = ops + 1
  /\ UNCHANGED <<tools, executions, client, exec, reported, asked>>
  /\ UNCHANGED <<tui, parked>>

\* mutant: a failed stream takes its user message back
StreamThrowsRollsBack(st, message) ==
  /\ turn' = [turn EXCEPT !.status = "failed", !.error = message, !.stream = st]
  /\ pc' = "idle"
  /\ conversation' =
       [conversation EXCEPT !.messages = SubSeq(@, 1, Len(@) - 1)]
  /\ UNCHANGED uuid

\* mutant: a stream that raises leaves what it had received as a message
StreamThrowsKeepsPartial(st, message) ==
  /\ turn' = [turn EXCEPT !.status = "failed", !.error = message, !.stream = st]
  /\ pc' = "idle"
  /\ conversation' =
       [conversation EXCEPT
          !.messages =
             Append(@, [id |-> "uuid-" \o ToString(uuid + 1), role |-> "assistant",
                        content |-> turn.assistantContent, toolCalls |-> << >>,
                        toolResults |-> << >>, tokens |-> << >>])]
  /\ uuid' = uuid + 1

\* the sequence raises: streamMessage rejects, nothing is appended
StreamThrows(st, message) ==
  /\ turn' = [turn EXCEPT !.status = "failed", !.error = message, !.stream = st]
  /\ pc' = "idle"
  /\ UNCHANGED <<conversation, uuid>>

\* mutant: the pushed message carries the last fragment only
StreamEndsLastFragment(st) ==
  LET assistantMessage ==
        createMessage(randomUUID(uuid + 1), "assistant",
                      IF Len(st.yielded) = 0 THEN ""
                      ELSE st.yielded[Len(st.yielded)],
                      << >>, << >>, << >>)
  IN /\ conversation' =
          [conversation EXCEPT !.messages = Append(@, assistantMessage),
                               !.updatedAt = @ + 1]
     /\ turn' = [turn EXCEPT !.status = "returned", !.result = <<assistantMessage>>,
                             !.stream = st]
     /\ uuid' = uuid + 1
     /\ pc' = "idle"

\* mutant: the streamed turn is accounted, one output token per fragment
StreamEndsCountsTokens(st) ==
  LET assistantMessage ==
        createMessage(randomUUID(uuid + 1), "assistant", turn.assistantContent,
                      << >>, << >>, << >>)
  IN /\ conversation' =
          [conversation EXCEPT
             !.messages = Append(@, assistantMessage),
             !.totalTokens = [@ EXCEPT !.output = @ + Len(st.yielded)],
             !.updatedAt = @ + 1]
     /\ turn' = [turn EXCEPT !.status = "returned", !.result = <<assistantMessage>>,
                             !.stream = st]
     /\ uuid' = uuid + 1
     /\ pc' = "idle"

\* the for await loop ended: push the assistant message and return it
StreamEnds(st) ==
  LET assistantMessage ==
        createMessage(randomUUID(uuid + 1), "assistant", turn.assistantContent,
                      << >>, << >>, << >>)
  IN /\ conversation' =
          [conversation EXCEPT !.messages = Append(@, assistantMessage),
                               !.updatedAt = @ + 1]
     /\ turn' = [turn EXCEPT !.status = "returned", !.result = <<assistantMessage>>,
                             !.stream = st]
     /\ uuid' = uuid + 1
     /\ pc' = "idle"

\* parseStream runs its for loop over the pending lines: a fragment goes
\* through the loop body of streamMessage to the consumer, the terminator
\* returns through finally, and without lines left the next read is awaited
Resume(st) ==
  LET scan == ScanLines(st.lines)
  IN IF scan.kind = "yield"
     THEN /\ turn' = [turn EXCEPT
                        !.assistantContent = @ \o scan.content,
                        !.stream = [st EXCEPT !.lines = scan.rest,
                                              !.yielded = Append(@, scan.content)]]
          /\ pc' = "streamYield"
          /\ UNCHANGED <<conversation, uuid>>
     ELSE IF scan.kind = "return"
     THEN StreamEnds(releaseLock([st EXCEPT !.lines = << >>]))
     ELSE /\ turn' = [turn EXCEPT !.stream = [st EXCEPT !.lines = << >>]]
          /\ pc' = "streamRead"
          /\ UNCHANGED <<conversation, uuid>>

\* the stream request is answered: stream throws, or returns the sequence
\* whose first next() takes the reader and awaits its first read
StreamOpens ==
  /\ pc = "streamOpen"
  /\ \E answer \in StreamAnswers :
       IF answer.kind = "neterr" \/ ~IsOk(answer)
       THEN StreamThrows(turn.stream, ErrorOf(answer))
       ELSE IF answer.status = 204
       THEN StreamThrows(turn.stream, "Response body is not readable")
       ELSE /\ turn' = [turn EXCEPT !.stream.reader = "locked"]
            /\ pc' = "streamRead"
            /\ UNCHANGED <<conversation, uuid>>
  /\ UNCHANGED <<tools, executions, client, exec, ops, reported, asked>>
  /\ UNCHANGED <<tui, parked>>

\* reader.read() settles: with a chunk, with done, or with an error
StreamRead ==
  /\ pc = "streamRead"
  /\ \/ \E chunk \in Chunks :
          /\ turn.stream.reads < MaxChunks
          /\ LET b == Buffered(turn.stream.buffer, chunk)
             IN Resume([turn.stream EXCEPT !.buffer = b.buffer, !.lines = b.lines,
                                      !.reads = @ + 1,
                                      !.received = @ \o chunk])
     \/ StreamEnds(releaseLock(turn.stream))
     \/ StreamThrows(releaseLock(turn.stream), "read failed")
  /\ UNCHANGED <<tools, executions, client, exec, ops, reported, asked>>
  /\ UNCHANGED <<tui, parked>>

\* the consumer asks for the next fragment
StreamNextFragment ==
  /\ pc = "streamYield"
  /\ Resume(turn.stream)
  /\ UNCHANGED <<tools, executions, client, exec, ops, reported, asked>>
  /\ UNCHANGED <<tui, parked>>

\* mutant: return() ends streamMessage's sequence only, the underlying
\* sequence stays suspended
StreamAbandonedOuterOnly ==
  /\ pc = "streamYield"
  /\ turn' = [turn EXCEPT !.status = "abandoned"]
  /\ pc' = "idle"
  /\ UNCHANGED <<conversation, tools, executions, uuid, client, exec, ops,
                 reported, asked>>
  /\ UNCHANGED <<tui, parked>>

\* the consumer leaves its loop: return() on streamMessage's sequence, whose
\* for await calls return() on the underlying sequence, suspended at its
\* yield inside the try block
StreamAbandoned ==
  /\ pc = "streamYield"
  /\ turn' = [turn EXCEPT !.status = "abandoned", !.stream = releaseLock(@)]
  /\ pc' = "idle"
  /\ UNCHANGED <<conversation, tools, executions, uuid, client, exec, ops,
                 reported, asked>>
  /\ UNCHANGED <<tui, parked>>

\* ------------------------------------------------------- Session.clear
Clear ==
  /\ pc = "idle" /\ ops < MaxTurns
  /\ conversation' = createConversation(randomUUID(uuid + 1))
  /\ uuid' = uuid + 1
  /\ turn' = [BeginTurn("clear", Undefined) EXCEPT !.status = "returned"]
  /\ ops' = ops + 1
  /\ UNCHANGED <<tools, executions, pc, client, exec, reported, asked>>
  /\ UNCHANGED <<tui, parked>>

Next ==
  \/ SendMessage
  \/ Fetch
  \/ Backoff
  \/ CompletionFails
  \/ NoToolCalls
  \/ ToolCallsUndecodable
  \/ ToolCallsPending
  \/ ToolReturns
  \/ ToolThrows
  \/ NextToolCall
  \/ SecondCompletionRequested
  \/ TurnComplete
  \/ ExecuteTool
  \/ ExecuteToolReturns
  \/ ExecuteToolFails
  \/ Clear

Spec == Init /\ [][Next]_vars

ClientNext == Fetch \/ Backoff

ClientSpec == ClientInit /\ [][ClientNext]_vars

\* ---------------------------------------------------------- constructors
\* credentials a caller may pass: none, null, the empty string, a key
Tokens == {Undefined, Null, "", "gsk_1"}

\* a GroqConfig argument: absent, or an object with a token
GroqConfigs == {<< >>} \cup {<<[token |-> t]>> : t \in Tokens}

\* a SessionConfig argument: absent, without groq, or with a GroqConfig
SessionConfigs == {<< >>} \cup {<<[groq |-> g]>> : g \in GroqConfigs}

\* z.string() on the token
IsString(t) == t \notin {Undefined, Null}

\* GroqConfig.parse(config).success
GroqConfigParse(config) == Len(config) > 0 /\ IsString(config[1].token)

\* SessionConfig.parse(config).success
SessionConfigParse(config) ==
  Len(config) > 0 /\ GroqConfigParse(config[1].groq)

Constructed == [ok |-> TRUE, error |-> Undefined]
ConstructorThrows(message) == [ok |-> FALSE, error |-> message]

\* mutant: only an absent token is refused
NewGroqClientAcceptsEmpty(config) ==
  IF Len(config) = 0 THEN ConstructorThrows("GroqConfig is required")
  ELSE IF config[1].token \in {Undefined, Null}
  THEN ConstructorThrows("Groq API token is required")
  ELSE Constructed

\* new GroqClient(config)
NewGroqClient(config) ==
  IF Len(config) = 0 THEN ConstructorThrows("GroqConfig is required")
  ELSE IF config[1].token \in {Undefined, Null, ""}
  THEN ConstructorThrows("Groq API token is required")
  ELSE IF ~GroqConfigParse(config) THEN ConstructorThrows(ZodErrorMessage)
  ELSE Constructed

\* the token of a config, undefined when there is none
TokenOf(config) == IF Len(config) = 0 THEN Undefined ELSE config[1].token

\* before any constructor has run there is no conversation
NoConversation ==
  [id |-> Undefined, messages |-> << >>,
   totalTokens |-> [input |-> 0, output |-> 0], updatedAt |-> 0]

\* no session exists yet
NoCurrentSession ==
  /\ conversation = NoConversation
  /\ tools = << >>
  /\ executions = << >>
  /\ uuid = 0
  /\ pc = "new"
  /\ turn = NoTurn
  /\ client = IdleClient
  /\ exec = IdleExec
  /\ ops = 0
  /\ reported = [input |-> 0, output |-> 0]
  /\ asked = 0

ConstructInit ==
  /\ NoCurrentSession
  /\ tui = NoTui
  /\ parked = NoRequest

\* new GroqClient(config) called on its own; turn records the call
NewGroqClientCalled ==
  /\ pc = "new"
  /\ \E config \in GroqConfigs :
       LET made == NewGroqClient(config)
       IN /\ turn' = [NoTurn EXCEPT !.op = "new GroqClient",
                                    !.content = TokenOf(config),
                                    !.status = IF made.ok THEN "returned" ELSE "failed",
                                    !.error = made.error]
          /\ pc' = IF made.ok THEN "client" ELSE "nothing"
  /\ UNCHANGED <<conversation, tools, executions, uuid, client, exec, ops,
                 reported, asked>>
  /\ UNCHANGED <<tui, parked>>

\* new Session(config): the config is parsed, then the conversation, the
\* client and the executor are made, the tools registered, the system
\* message pushed
NewSessionCalled ==
  /\ pc = "new"
  /\ \E config \in SessionConfigs :
       LET groq == IF Len(config) = 0 THEN << >> ELSE config[1].groq
           made == IF ~SessionConfigParse(config)
                   THEN ConstructorThrows(ZodErrorMessage)
                   ELSE NewGroqClient(groq)
       IN /\ turn' = [NoTurn EXCEPT !.op = "new Session",
                                    !.content = TokenOf(groq),
                                    !.status = IF made.ok THEN "returned" ELSE "failed",
                                    !.error = made.error]
          /\ IF made.ok
             THEN /\ conversation' =
                       [createConversation(randomUUID(1)) EXCEPT
                          !.messages =
                             <<createMessage(randomUUID(2), "system", systemPrompt,
                                             << >>, << >>, << >>)>>]
                  /\ tools' =
                       registerTool(registerTool(registerTool(registerTool(
                         registerTool(<< >>, bashTool), readFileTool),
                         writeFileTool), listFilesTool), makeDirTool)
                  /\ uuid' = 2
                  /\ pc' = "idle"
             ELSE /\ pc' = "nothing"
                  /\ UNCHANGED <<conversation, tools, uuid>>
  /\ UNCHANGED <<executions, client, exec, ops, reported, asked>>
  /\ UNCHANGED <<tui, parked>>

\* a session on which only streamMessage and clear are called
StreamNext ==
  \/ StreamMessage
  \/ StreamOpens
  \/ StreamRead
  \/ StreamNextFragment
  \/ StreamAbandoned
  \/ Clear

StreamSpec == Init /\ [][StreamNext]_vars

\* the constructors, and what a constructed session is then used for
ConstructNext == NewGroqClientCalled \/ NewSessionCalled \/ StreamNext

ConstructSpec == ConstructInit /\ [][ConstructNext]_vars

\* ------------------------------------------------------------ the server
\* a request body: nothing, or the JSON of a config
NoBodySent == << >>
JsonBody(config) == <<config>>

\* mutant: any body that decodes gives a session
PostSessionOkAnyBody(body) == Len(body) > 0

\* POST /session succeeds when c.req.json() and new Session(config) do
PostSessionOk(body) ==
  /\ Len(body) > 0
  /\ SessionConfigParse(body[1])
  /\ NewGroqClient(body[1][1].groq).ok

\* new Session(config) assigned to currentSession
SessionConstructed ==
  /\ conversation' =
       [createConversation(randomUUID(uuid + 1)) EXCEPT
          !.messages =
             <<createMessage(randomUUID(uuid + 2), "system", systemPrompt,
                             << >>, << >>, << >>)>>]
  /\ tools' =
       registerTool(registerTool(registerTool(registerTool(
         registerTool(<< >>, bashTool), readFileTool),
         writeFileTool), listFilesTool), makeDirTool)
  /\ executions' = << >>
  /\ uuid' = uuid + 2
  /\ pc' = "idle"
  /\ client' = IdleClient
  /\ exec' = IdleExec

\* currentSession = new Session(config): what the old session was doing is
\* no longer reachable
CurrentSessionReplaced ==
  /\ SessionConstructed
  /\ turn' = NoTurn
  /\ UNCHANGED <<ops, reported, asked, parked>>

CurrentSessionKept ==
  UNCHANGED <<conversation, tools, executions, uuid, pc, turn, client, exec,
              ops, reported, asked, parked>>

\* bodies a client may post to /session
SessionBodies == {NoBodySent} \cup {JsonBody(config) : config \in SessionConfigs}

\* what the route answers
SessionAnswer(ok, id) ==
  IF ok THEN [success |-> TRUE, sessionId |-> id, error |-> Undefined]
  ELSE [success |-> FALSE, sessionId |-> Undefined,
        error |-> "Failed to initialize session"]

\* POST /session with any body, no other request being in flight; turn
\* records the body and the answer
PostSession ==
  /\ pc = "idle" /\ ops < MaxTurns
  /\ \E body \in SessionBodies :
       IF PostSessionOk(body)
       THEN /\ SessionConstructed
            /\ turn' = [BeginTurn("POST /session", body) EXCEPT
                          !.status = "returned",
                          !.result = <<SessionAnswer(TRUE, randomUUID(uuid + 1))>>]
       ELSE /\ turn' = [BeginTurn("POST /session", body) EXCEPT
                          !.status = "returned",
                          !.result = <<SessionAnswer(FALSE, Undefined)>>]
            /\ UNCHANGED <<conversation, tools, executions, uuid, pc, client, exec>>
  /\ ops' = ops + 1
  /\ UNCHANGED <<reported, asked, tui, parked>>

\* the server handles a request of any of its clients: while the process
\* runs, the current session is operated
ServerStep == tui.serverUp /\ Next

\* ------------------------------------------------- the terminal client
\* the config InitSession posts: GROQ_API_KEY was checked to be non-empty
TuiConfig == <<[groq |-> <<[token |-> "gsk_1"]>>]>>

\* runTUI after setupCleanupHandlers: a server may be running already
TuiInit ==
  /\ NoCurrentSession
  /\ \E up \in BOOLEAN : tui = [NoTui EXCEPT !.at = "start", !.serverUp = up]
  /\ parked = NoRequest

\* isServerRunning answers true: the server is not the client's own
TuiFindsServer ==
  /\ tui.at = "start" /\ tui.serverUp
  /\ tui' = [tui EXCEPT !.at = "init"]
  /\ CurrentSessionKept

\* no server runs: start one and wait until it answers /health
TuiStartsServer ==
  /\ tui.at = "start" /\ ~tui.serverUp
  /\ \/ tui' = [tui EXCEPT !.at = "init", !.serverUp = TRUE,
                           !.globalServerCmd = TRUE]
     \/ tui' = [tui EXCEPT !.at = "exited", !.left = "startup"]
     \/ tui' = [tui EXCEPT !.at = "exited", !.left = "startup",
                           !.globalServerCmd = TRUE]
  /\ CurrentSessionKept

\* client.InitSession: POST /session with the config; log.Fatalf on failure
TuiInitSession ==
  /\ tui.at = "init"
  /\ \/ /\ PostSessionOk(JsonBody(TuiConfig))
        /\ CurrentSessionReplaced
        /\ tui' = [tui EXCEPT !.at = "prompt"]
     \/ /\ CurrentSessionKept
        /\ tui' = [tui EXCEPT !.at = "exited", !.left = "fatal"]

\* the reset command: ClearConversation posts to /session without a body
TuiReset ==
  /\ tui.at = "prompt"
  /\ IF tui.serverUp /\ PostSessionOk(NoBodySent)
     THEN /\ CurrentSessionReplaced
          /\ tui' = [tui EXCEPT !.said = "Conversation history cleared!"]
     ELSE /\ CurrentSessionKept
          /\ tui' = [tui EXCEPT !.said = "Error clearing conversation"]

\* cleanupAndExit: kill the server the client holds, then exit
cleanupAndExit(how) ==
  [tui EXCEPT !.at = "exited", !.left = how,
              !.serverUp = IF tui.globalServerCmd THEN FALSE ELSE @]

\* the quit, exit and q commands
TuiQuit ==
  /\ tui.at = "prompt"
  /\ tui' = cleanupAndExit("quit")
  /\ CurrentSessionKept

\* scanner.Scan() returns false: break, runTUI and main return
TuiEndOfInput ==
  /\ tui.at = "prompt"
  /\ tui' = [tui EXCEPT !.at = "exited", !.left = "eof"]
  /\ CurrentSessionKept

\* SIGINT or SIGTERM reaches the handler goroutine
TuiSignal ==
  /\ tui.at \in {"start", "init", "prompt"}
  /\ tui' = cleanupAndExit("signal")
  /\ CurrentSessionKept

TuiNext ==
  \/ TuiFindsServer
  \/ TuiStartsServer
  \/ TuiInitSession
  \/ TuiReset
  \/ TuiQuit
  \/ TuiEndOfInput
  \/ TuiSignal
  \/ ServerStep

TuiSpec == TuiInit /\ [][TuiNext]_vars

\* ------------------------------------------------- handleMessage
\* any other input line: print the robot, make the unbuffered channel done,
\* start the progress goroutine and call client.SendMessage
TuiHandleMessage ==
  /\ tui.at = "prompt" /\ ops < MaxMessages
  /\ tui' = [tui EXCEPT !.at = "request", !.indicator = "started",
                        !.tick = FALSE, !.dotted = FALSE, !.sentAt = ops,
                        !.err = FALSE]
  /\ CurrentSessionKept

\* the goroutine is scheduled: time.NewTicker, then the first select
IndicatorStarts ==
  /\ tui.indicator = "started"
  /\ tui' = [tui EXCEPT !.indicator = "select"]
  /\ CurrentSessionKept

\* half a second has passed: the ticker puts a tick in ticker.C, which holds
\* one at most
Tick ==
  /\ tui.indicator \in {"select", "print"} /\ ~tui.tick
  /\ tui' = [tui EXCEPT !.tick = TRUE]
  /\ CurrentSessionKept

\* select takes case <-ticker.C
IndicatorTakesTick ==
  /\ tui.indicator = "select" /\ tui.tick
  /\ tui' = [tui EXCEPT !.indicator = "print", !.tick = FALSE]
  /\ CurrentSessionKept

\* fmt.Print(".") returns and the loop is back at the select
IndicatorPrinted ==
  /\ tui.indicator = "print"
  /\ tui' = [tui EXCEPT !.indicator = "select", !.dotted = TRUE]
  /\ CurrentSessionKept

\* the server's POST /message route takes the request
ServerTakesMessage ==
  /\ tui.at = "request" /\ tui.serverUp /\ ops = tui.sentAt
  /\ SendMessage

\* client.Post or the decoding of the body fails before the route ran
TuiRequestFails ==
  /\ tui.at = "request" /\ ops = tui.sentAt
  /\ tui' = [tui EXCEPT !.at = "notify", !.err = TRUE]
  /\ CurrentSessionKept

\* the route has answered: SendMessage returns the response, or an error
\* when success is false
TuiGetsResponse ==
  /\ tui.at = "request" /\ ops = tui.sentAt + 1 /\ pc = "idle"
  /\ tui' = [tui EXCEPT !.at = "notify", !.err = (turn.status = "failed")]
  /\ CurrentSessionKept

DoneSentWithoutReceiver ==
  /\ tui.at = "notify"
  /\ tui' = [tui EXCEPT !.at = "prompt",
                        !.said = IF tui.err THEN "Error" ELSE "response"]
  /\ CurrentSessionKept

\* done <- true meets case <-done: the goroutine returns and its deferred
\* ticker.Stop runs, the main goroutine prints the error or the response
\* and handleMessage returns; neither side touches anything shared after
\* the channel operation
IndicatorReceivesDone ==
  /\ tui.at = "notify" /\ tui.indicator = "select"
  /\ tui' = [tui EXCEPT !.at = "prompt", !.indicator = "none", !.tick = FALSE,
                        !.said = IF tui.err THEN "Error" ELSE "response"]
  /\ CurrentSessionKept

\* the Go scheduler runs every goroutine that can run; a select with several
\* ready cases picks one uniformly at random, so a case that is ready again
\* and again is taken; the route's turn in flight advances and the HTTP
\* exchange comes to an end
HandleMessageSpec ==
  /\ TuiInit
  /\ [][
       \/ TuiFindsServer
       \/ TuiStartsServer
       \/ TuiInitSession
       \/ TuiReset
       \/ TuiQuit
       \/ TuiEndOfInput
       \/ TuiHandleMessage
       \/ IndicatorStarts
       \/ Tick
       \/ IndicatorTakesTick
       \/ IndicatorPrinted
       \/ ServerTakesMessage
       \/ Fetch
       \/ Backoff
       \/ CompletionFails
       \/ NoToolCalls
       \/ ToolCallsUndecodable
       \/ ToolCallsPending
       \/ ToolReturns
       \/ ToolThrows
       \/ NextToolCall
       \/ SecondCompletionRequested
       \/ TurnComplete
       \/ TuiRequestFails
       \/ TuiGetsResponse
       \/ IndicatorReceivesDone
     ]_vars
  /\ WF_vars(IndicatorStarts)
  /\ WF_vars(IndicatorPrinted)
  /\ SF_vars(IndicatorReceivesDone)
  /\ WF_vars(ServerTakesMessage \/ TuiRequestFails)
  /\ WF_vars(pc # "idle" /\ Next)
  /\ WF_vars(TuiGetsResponse)

\* a session on which every operation is called
SessionNext == Next \/ StreamNext

SessionSpec == Init /\ [][SessionNext]_vars

\* an executor on which tools are registered and executed
RegisterSpec ==
  /\ Init
  /\ [][
       \/ RegisterTool
       \/ ExecuteTool
       \/ ToolReturns
       \/ ToolThrows
       \/ ExecuteToolReturns
       \/ ExecuteToolFails
     ]_vars

\* the server with a session, one request at a time
ServerSpec == Init /\ [][PostSession \/ Next]_vars

\* --------------------------------------------- two requests at a time
\* the handlers of /message, /stream and DELETE /session await the session
\* without holding anything: while one request is suspended at an await the
\* event loop runs the other; the request whose continuation runs next
\* becomes the one the session actions are about;
\* the retry loop of complete touches nothing but its own locals: a request
\* suspended in it is let go of at its first fetch only
Switch ==
  /\ parked.switches < MaxSwitches
  /\ pc # "idle" \/ parked.pc # "idle"
  /\ pc \in {"await1", "await2"} => client.cpc = "fetch" /\ client.requests = 0
  /\ parked' = [pc |-> pc, turn |-> turn, client |-> client, exec |-> exec,
                switches |-> parked.switches + 1]
  /\ pc' = parked.pc
  /\ turn' = parked.turn
  /\ client' = parked.client
  /\ exec' = parked.exec
  /\ UNCHANGED <<conversation, tools, executions, uuid, ops, reported, asked, tui>>

ConcurrentSpec ==
  /\ Init
  /\ [][
       \/ SendMessage
       \/ Fetch
       \/ Backoff
       \/ CompletionFails
       \/ NoToolCalls
       \/ ToolCallsUndecodable
       \/ ToolCallsPending
       \/ ToolReturns
       \/ ToolThrows
       \/ NextToolCall
       \/ SecondCompletionRequested
       \/ TurnComplete
       \/ StreamNext
       \/ Switch
     ]_vars

\* ======================================================== properties
Messages == conversation.messages

\* the k-th message the operation in flight (or just over) has appended
Added(k) == Messages[turn.startLen + k]

SendReturned == turn.op = "sendMessage" /\ turn.status = "returned"

\* C1: a sendMessage whose first completion carries exactly one tool call,
\* whose execution completes, and that returns, has appended after the user
\* message exactly the assistant message with the call, the tool message with
\* its result and the final assistant message, in that order, and has invoked
\* complete exactly twice.
C1_OneToolCallTurn ==
  (SendReturned /\ Len(turn.response.toolCalls) = 1 /\ turn.outcomes = <<"completed">>)
    => /\ Len(Messages) = turn.startLen + 4
       /\ Added(1).role = "user"
       /\ Added(2).role = "assistant"
       /\ Len(Added(2).toolCalls) = 1
       /\ Added(2).toolCalls[1].id = turn.response.toolCalls[1].id
       /\ Added(2).toolCalls[1].name = turn.response.toolCalls[1].function.name
       /\ Added(3).role = "tool"
       /\ Len(Added(3).toolResults) = 1
       /\ Added(3).toolResults[1].id = turn.response.toolCalls[1].id
       /\ Added(3).toolResults[1].error = Undefined
       /\ Added(3).toolResults[1].result \in ToolOutputs(turn.response.toolCalls[1].function.name)
       /\ Added(4).role = "assistant"
       /\ Added(4).toolCalls = << >>
       /\ turn.result = <<Added(4)>>
       /\ turn.completes = 2

C1_Witness ==
  SendReturned /\ Len(turn.response.toolCalls) = 1 /\ turn.outcomes = <<"completed">>

\* C2: a sendMessage whose first completion carries no tool calls invokes
\* complete once, appends the user message and one assistant message with the
\* response content, adds the response's tokens to the counters, returns that
\* assistant message, and runs no tool.
C2_NoToolCallTurn ==
  (SendReturned /\ Len(turn.response.toolCalls) = 0)
    => /\ turn.completes = 1
       /\ Len(Messages) = turn.startLen + 2
       /\ Added(1).role = "user"
       /\ Added(1).content = turn.content
       /\ Added(2).role = "assistant"
       /\ Added(2).content = turn.response.content
       /\ Added(2).toolCalls = << >>
       /\ conversation.totalTokens.input
            = turn.startTokens.input + turn.response.tokens.input
       /\ conversation.totalTokens.output
            = turn.startTokens.output + turn.response.tokens.output
       /\ turn.result = <<Added(2)>>
       /\ turn.outcomes = << >>
       /\ Len(executions) = turn.startExecs

C2_Witness ==
  /\ SendReturned /\ Len(turn.response.toolCalls) = 0
  /\ turn.startTokens.output > 0
  /\ turn.response.tokens.output > 0

\* C3: no sendMessage invokes complete more than twice; when the second
\* response carries tool calls none of them is executed and the final
\* assistant message is appended without tool calls.
C3_TwoCompletionsAtMost ==
  /\ turn.completes <= 2
  /\ (SendReturned /\ Len(turn.finalResponse.toolCalls) > 0)
       => /\ turn.completes = 2
          /\ Len(turn.outcomes) = Len(turn.response.toolCalls)
          /\ Len(Messages) = turn.startLen + 3 + Len(turn.response.toolCalls)
          /\ Messages[Len(Messages)].role = "assistant"
          /\ Messages[Len(Messages)].toolCalls = << >>
          /\ turn.result = <<Messages[Len(Messages)]>>
          /\ pc = "idle" /\ exec = IdleExec /\ client = IdleClient

C3_Witness == SendReturned /\ Len(turn.finalResponse.toolCalls) > 0

\* C4: while only completions without tool calls have come back and the
\* conversation was never cleared, the reported total is the sum of the
\* input and output tokens of every response complete returned; and the
\* total is input + output in every state.
C4_TotalIsSumOfReported ==
  /\ (pc = "idle" /\ asked = 0 /\ conversation.id = randomUUID(1))
       => /\ getTokenUsage(conversation).total = reported.input + reported.output
          /\ getTokenUsage(conversation).input = reported.input
          /\ getTokenUsage(conversation).output = reported.output
  /\ getTokenUsage(conversation).total
       = getTokenUsage(conversation).input + getTokenUsage(conversation).output

C4_Witness ==
  /\ pc = "idle" /\ asked = 0 /\ conversation.id = randomUUID(1)
  /\ ops = 2 /\ SendReturned
  /\ turn.startTokens.output > 0
  /\ getTokenUsage(conversation).total > turn.startTokens.input + turn.startTokens.output

\* C5: a sendMessage that takes the tool-call path and returns has raised
\* each counter by the sum of what the first and the second response report.
C5_BothCompletionsCounted ==
  (SendReturned /\ Len(turn.response.toolCalls) > 0)
    => /\ conversation.totalTokens.input
            = turn.startTokens.input + turn.response.tokens.input
                + turn.finalResponse.tokens.input
       /\ conversation.totalTokens.output
            = turn.startTokens.output + turn.response.tokens.output
                + turn.finalResponse.tokens.output

C5_Witness ==
  /\ SendReturned /\ Len(turn.response.toolCalls) > 0
  /\ turn.response.tokens.input > 0
  /\ turn.finalResponse.tokens.input > 0

\* C6: execute called with an unregistered name returns a ToolExecution in
\* state error with a non-empty error string, and never raises.
C6_UnregisteredReturnsError ==
  (exec.epc = "done" /\ ~HasTool(tools, exec.name))
    => /\ exec.ret.kind = "ok"
       /\ exec.index \in 1..Len(executions)
       /\ executions[exec.index].state = "error"
       /\ executions[exec.index].error \notin {Undefined, ""}

Terminal(e) == e.state \in {"completed", "error"}

\* C7: for a registered tool execute never raises: when the parameters fail
\* validation the tool's execute function is not run and the execution is in
\* state error with the validation message; when the tool itself fails the
\* execution is in state error with the tool's message; otherwise it is in
\* state completed with the tool's output.
C7_RegisteredNeverRaises ==
  (exec.epc = "done" /\ HasTool(tools, exec.name))
    => /\ exec.ret.kind = "ok"
       /\ exec.index \in 1..Len(executions)
       /\ LET e == executions[exec.index]
          IN IF ~ParseOk(GetTool(tools, exec.name), e.input)
             THEN /\ ~e.ran /\ exec.body.kind = "none"
                  /\ e.state = "error" /\ e.error = ZodErrorMessage
                  /\ e.output = Undefined
             ELSE /\ e.ran /\ exec.body.kind \in {"returned", "threw"}
                  /\ exec.body.kind = "threw"
                       => /\ e.state = "error" /\ e.error = exec.body.value
                          /\ e.output = Undefined
                  /\ exec.body.kind = "returned"
                       => /\ e.state = "completed" /\ e.output = exec.body.value
                          /\ e.error = Undefined

C7_Witness ==
  /\ exec.epc = "done" /\ HasTool(tools, exec.name) /\ exec.ret.kind = "ok"
  /\ ~ParseOk(GetTool(tools, exec.name), executions[exec.index].input)
  /\ executions[exec.index].state = "error"

\* the state and record of every execution are those of its lifecycle
C8_Lifecycle ==
  /\ \A i \in 1..Len(executions) :
       LET e == executions[i]
       IN /\ e.stateLog \in {<<"pending">>, <<"pending", "running">>,
                             <<"pending", "running", "completed">>,
                             <<"pending", "running", "error">>}
          /\ e.state = e.stateLog[Len(e.stateLog)]
          /\ Terminal(e) => e.endTime # Undefined
          /\ e.state = "completed" => e.output # Undefined /\ e.error = Undefined
          /\ e.state = "error" => e.error \notin {Undefined, ""} /\ e.output = Undefined
          /\ ~Terminal(e) => e.output = Undefined /\ e.error = Undefined
  /\ (exec.epc = "done" /\ exec.ret.kind = "ok") => Terminal(executions[exec.index])

\* an execution in a terminal state is never written again
C8_Frozen ==
  \A i \in 1..Len(executions) :
    Terminal(executions[i])
      => i \in 1..Len(executions') /\ executions'[i] = executions[i]

\* C8: every execution moves pending -> running -> (completed | error) and
\* in no other way; its terminal state is set once and it is not written
\* afterwards; endTime is set whenever the state is terminal; an execution
\* returned to the caller is terminal and records exactly one of output
\* (completed) and error (error).
C8_ExecutionLifecycle == [](C8_Lifecycle) /\ [][C8_Frozen]_vars

C8_Witness ==
  /\ Len(executions) >= 2
  /\ executions[1].state = "error"
  /\ executions[2].state = "completed"
  /\ exec.epc = "done" /\ exec.ret.kind = "ok" /\ exec.index = 2

ToolPath == turn.op = "sendMessage" /\ Len(turn.response.toolCalls) > 0

\* C9: in a sendMessage turn a tool call that fails (unregistered name,
\* invalid parameters, failure inside the tool) does not fail the turn: its
\* tool message carries an error, the calls after it are executed as well,
\* and the second completion is requested.
C9_ToolFailuresFolded ==
  ToolPath
    => /\ \A k \in 1..Len(turn.outcomes) :
            LET call == turn.response.toolCalls[k]
                msg == Added(2 + k)
            IN /\ msg.role = "tool"
               /\ Len(msg.toolResults) = 1
               /\ msg.toolResults[1].id = call.id
               /\ (\/ ~HasTool(tools, call.function.name)
                   \/ ~ParseOk(GetTool(tools, call.function.name),
                               JSONparse(call.function.arguments).value))
                    => turn.outcomes[k] # "completed"
               /\ turn.outcomes[k] # "completed"
                    => msg.toolResults[1].error \notin {Undefined, Null, ""}
       /\ pc = "tools" => turn.status = "running" /\ Len(turn.outcomes) = turn.i - 1
       /\ pc # "tools"
            => /\ Len(turn.outcomes) = Len(turn.response.toolCalls)
               /\ turn.completes = 2

C9_Witness ==
  /\ ToolPath /\ turn.status = "returned"
  /\ turn.outcomes = <<"thrown", "error">>
  /\ executions[Len(executions)].error = ZodErrorMessage

\* C10: a complete call whose remote answers 429, 429 and then 200 succeeds
\* after exactly 3 HTTP requests.
C10_TwoRateLimitsThenSuccess ==
  (/\ client.cpc = "done"
   /\ client.script = <<Http(429), Http(429), Http(200)>>)
    => client.ret.kind = "ok" /\ client.requests = 3

\* complete on its own, where every fetch settles and every timer fires
ClientFairSpec == ClientSpec /\ WF_vars(ClientNext)

\* the failures the retry policy is for: transport errors, 429 and 5xx
RetryableFailure(answer) ==
  answer.kind = "neterr" \/ (answer.kind = "http" /\ IsRetryable(answer.status))

\* C11: a complete call whose remote answers a status that is neither 2xx,
\* 429 nor 5xx (HTTP 400) is not retried: one HTTP request, no backoff delay,
\* and the call fails.
C11_BadRequestNotRetried ==
  (client.requests >= 1 /\ client.script[1] = Http(400))
    => /\ client.cpc = "done"
       /\ client.ret.kind = "error"
       /\ client.requests = 1
       /\ client.delays = << >>

\* C12: a 2xx answer whose body is not JSON makes complete fail without any
\* further HTTP request.
C12_MalformedBodyNotRetried ==
  \A k \in 1..client.requests :
    client.script[k] = Garbled
      => /\ client.requests = k
         /\ client.cpc = "done"
         /\ client.ret.kind = "error"

\* what C13 says of every state of a complete call
C13_Stops ==
  /\ client.requests <= 3
  /\ \A k \in 1..client.requests :
       ~RetryableFailure(client.script[k])
         => client.requests = k /\ client.cpc = "done"
  /\ client.cpc = "done"
       => /\ client.requests >= 1
          /\ client.script[client.requests] = Http(200) => client.ret.kind = "ok"
          /\ client.script[client.requests] \in Failures
               => /\ client.ret.kind = "error"
                  /\ RetryableFailure(client.script[client.requests])
                       => client.ret.error =
                            ExhaustedMessage(ErrorOf(client.script[client.requests]))

\* C13: every complete call terminates; it makes at most 3 HTTP requests,
\* stops at the first success or the first failure that is not retryable,
\* and when every request failed with a retryable failure it fails with an
\* error that wraps the last underlying error.
C13_CompleteTerminates == <>(client.cpc = "done") /\ [](C13_Stops)

Streamed == turn.op = "streamMessage"

RECURSIVE Joined(_)
Joined(fragments) ==
  IF Len(fragments) = 0 THEN "" ELSE Head(fragments) \o Joined(Tail(fragments))

\* C14: when the fragment sequence of streamMessage has been consumed to its
\* end, the assistant message pushed after it has as content the fragments
\* handed to the consumer, concatenated in order.
C14_StreamedContentIsConcatenation ==
  (Streamed /\ turn.status = "returned")
    => /\ Len(Messages) = turn.startLen + 2
       /\ Added(2).role = "assistant"
       /\ Added(2).content = Joined(turn.stream.yielded)
       /\ turn.result = <<Added(2)>>

C14_Witness ==
  /\ Streamed /\ turn.status = "returned"
  /\ turn.stream.yielded = <<"a", "b">>
  /\ Added(2).content = "ab"

\* C15: the reader taken on the response body is locked only while the
\* fragment sequence is in flight; once the sequence is over (end of body,
\* terminator, read error, or the consumer leaving early) the reader, if one
\* was taken, has been released, exactly once.
C15_ReaderReleased ==
  Streamed
    => /\ turn.stream.reader = "locked" <=> pc \in {"streamRead", "streamYield"}
       /\ turn.stream.reader = "released" <=> turn.stream.releases = 1
       /\ turn.stream.releases <= 1
       /\ pc = "streamOpen" => turn.stream.reader = "none"

C15_Witness ==
  /\ Streamed /\ turn.status = "abandoned"
  /\ Len(turn.stream.yielded) > 0
  /\ turn.stream.reader = "released"

\* C16: a clear() step, whatever preceded it, leaves the conversation as the
\* constructor does: a new id, a transcript of exactly one message, of role
\* system, and both token counters at zero.
C16_ClearReseeds ==
  [][(turn'.op = "clear" /\ ops' = ops + 1)
       => /\ conversation'.id # conversation.id
          /\ Len(conversation'.messages) = 1
          /\ conversation'.messages[1].role = "system"
          /\ conversation'.totalTokens = [input |-> 0, output |-> 0]]_vars

\* a stub remote reads one message of a request body: a missing member reads
\* as undefined, missing tool calls as none
StubRead(text) ==
  LET member(k) == IF k \in DOMAIN text THEN text[k] ELSE Undefined
      calls == IF "tool_calls" \in DOMAIN text THEN text["tool_calls"] ELSE << >>
  IN [role |-> member("role"), content |-> member("content"),
      calls |-> [i \in 1..Len(calls) |->
                   [id |-> calls[i].id, name |-> calls[i].function.name]],
      resultId |-> member("tool_call_id")]

\* what C17 lists of a transcript message
Identity(msg) ==
  [role |-> msg.role, content |-> msg.content,
   calls |-> [i \in 1..Len(msg.toolCalls) |->
                [id |-> msg.toolCalls[i].id, name |-> msg.toolCalls[i].name]],
   resultId |-> IF Len(msg.toolResults) > 0 THEN msg.toolResults[1].id
                ELSE Undefined]

Completing == pc \in {"await1", "await2"}

\* C17: the request body complete sends holds one message per transcript
\* message, from which a stub remote reads back the role, the content, the id
\* and name of every tool call, and the id of the tool result.
C17_WireRoundTrip ==
  Completing
    => /\ Len(RequestBody(client.payload)) = Len(Messages)
       /\ \A i \in 1..Len(Messages) :
            StubRead(RequestBody(client.payload)[i]) = Identity(Messages[i])

C17_Witness ==
  /\ pc = "await2"
  /\ \E i \in 1..Len(Messages) : Len(Messages[i].toolCalls) = 2
  /\ \E i \in 1..Len(Messages) :
       Messages[i].role = "tool" /\ Messages[i].content = Undefined
  /\ \E i \in 1..Len(Messages) :
       Messages[i].role = "tool" /\ Messages[i].content # Undefined

IsPrefix(before, after) ==
  Len(before) <= Len(after) /\ SubSeq(after, 1, Len(before)) = before

ClearStep == turn'.op = "clear" /\ ops' = ops + 1

\* C18: every step of sendMessage, streamMessage and executeTool, whether
\* the operation succeeds or fails, leaves the transcript it found as a
\* prefix of the transcript it leaves; only clear() does otherwise.
C18_AppendOnly ==
  [][~ClearStep => IsPrefix(conversation.messages, conversation'.messages)]_vars

C18_Witness ==
  /\ Streamed /\ turn.status = "failed"
  /\ turn.startLen >= 4
  /\ Len(Messages) = turn.startLen + 1
  /\ \E i \in 1..turn.startLen : Messages[i].role = "tool"

\* message i answers a tool call of an assistant message before it
AnswersEarlierCall(i) ==
  /\ Len(Messages[i].toolResults) > 0
  /\ \A r \in 1..Len(Messages[i].toolResults) :
       \E j \in 1..(i - 1) :
         /\ Messages[j].role = "assistant"
         /\ \E k \in 1..Len(Messages[j].toolCalls) :
              Messages[j].toolCalls[k].id = Messages[i].toolResults[r].id

\* C19: in every state of a session, each message of role tool carries a
\* tool result whose id is the id of a tool call of an assistant message
\* earlier in the same transcript.
C19_ToolResultsAnswerCalls ==
  \A i \in 1..Len(Messages) : Messages[i].role = "tool" => AnswersEarlierCall(i)

CompletionFailed ==
  Completing /\ client.cpc = "done" /\ client.ret.kind = "error"

\* a sendMessage that ended because a complete call threw
SendFailedAtCompletion ==
  /\ turn.op = "sendMessage" /\ turn.status = "failed"
  /\ \E answer \in Failures : turn.error = ExhaustedMessage(ErrorOf(answer))

C20_Kept ==
  SendFailedAtCompletion
    => LET n == Len(turn.response.toolCalls)
       IN /\ turn.completes \in {1, 2}
          /\ turn.completes = 1 => Len(Messages) = turn.startLen + 1
          /\ turn.completes = 2 => n > 0 /\ Len(Messages) = turn.startLen + 2 + n
          /\ Added(1).role = "user" /\ Added(1).content = turn.content
          /\ turn.completes = 2
               => /\ Added(2).role = "assistant"
                  /\ Len(Added(2).toolCalls) = n
                  /\ \A k \in 1..n : Added(2 + k).role = "tool"

C20_Propagates ==
  CompletionFailed
    => /\ turn'.status = "failed"
       /\ turn'.error = client.ret.error
       /\ conversation' = conversation

\* C20: a complete call that fails during sendMessage fails the turn with its
\* error and takes nothing back: after a failed first completion the user
\* message is there; after a failed second completion the user message, the
\* assistant message with its calls and one tool message per call are there,
\* and no final assistant message.
C20_FailedTurnKeepsTranscript == [](C20_Kept) /\ [][C20_Propagates]_vars

C20_Witness ==
  /\ SendFailedAtCompletion
  /\ turn.completes = 2
  /\ Len(turn.response.toolCalls) = 2
  /\ Messages[Len(Messages)].role = "tool"

\* C21: streamMessage leaves the token counters as it found them, at every
\* point of the streamed turn and however it ends: completed, failed or
\* abandoned.
C21_StreamKeepsCounters ==
  Streamed
    => /\ conversation.totalTokens = turn.startTokens
       /\ getTokenUsage(conversation).total
            = turn.startTokens.input + turn.startTokens.output

C21_Witness ==
  /\ Streamed /\ turn.status = "returned"
  /\ Len(turn.stream.yielded) > 0
  /\ turn.startTokens.input > 0
  /\ conversation.totalTokens = turn.startTokens

ExecuteToolOver == turn.op = "executeTool" /\ pc = "idle"

\* C22: executeTool, for every name and every outcome of the execution,
\* returns the executor's ToolExecution and appends exactly one message, of
\* role tool, that carries the output or the error of that execution.
C22_ExecuteToolAppendsResult ==
  ExecuteToolOver
    => /\ turn.status = "returned"
       /\ Len(turn.result) = 1
       /\ Len(executions) = turn.startExecs + 1
       /\ turn.result[1] = executions[Len(executions)]
       /\ Len(Messages) = turn.startLen + 1
       /\ Added(1).role = "tool"
       /\ Added(1).toolResults[1].result = turn.result[1].output
       /\ Added(1).toolResults[1].error = turn.result[1].error

NoCredential == turn.content \in {Undefined, Null, ""}

\* C23: a GroqClient, and so a Session, constructed with a missing or empty
\* credential throws in the constructor: nothing is constructed, and no
\* step, so no network request, follows.
C23_Throws ==
  (turn.op \in {"new GroqClient", "new Session"} /\ NoCredential)
    => /\ turn.status = "failed"
       /\ pc = "nothing"
       /\ conversation = NoConversation /\ tools = << >>

C23_NoCredentialNoSession == [](C23_Throws) /\ [][pc # "nothing"]_vars

C23_Witness ==
  /\ turn.op = "new Session" /\ turn.content = ""
  /\ turn.error = "Groq API token is required"
  /\ pc = "nothing"

ResetStep ==
  /\ tui.at = "prompt" /\ tui'.at = "prompt"
  /\ tui.said = "none" /\ tui'.said # "none"

\* C24: when the terminal client's reset command is run against a server
\* with an active session, the client reports success and the server's
\* conversation holds none of the messages of the earlier turns.
C24_ResetClearsHistory ==
  [][(ResetStep /\ tui.serverUp /\ pc # "new")
       => /\ tui'.said = "Conversation history cleared!"
          /\ \A i \in 2..Len(conversation.messages) :
               \A j \in 1..Len(conversation'.messages) :
                 conversation'.messages[j].id # conversation.messages[i].id]_vars

LeftTheLoop == tui.at = "exited" /\ tui.left \in {"quit", "signal", "eof"}

\* C25: once the terminal client has left its interactive loop, by a quit
\* command, by an interrupt or termination signal or by the end of its
\* input, a server it started itself is no longer running.
C25_OwnServerStopped ==
  (LeftTheLoop /\ tui.globalServerCmd) => ~tui.serverUp

\* the first k tool messages of the turn answer its first k calls, in order
ToolMessagesInOrder(k) ==
  \A j \in 1..k :
    /\ Added(2 + j).role = "tool"
    /\ Len(Added(2 + j).toolResults) = 1
    /\ Added(2 + j).toolResults[1].id = turn.response.toolCalls[j].id

\* the turn's user message and its assistant message with the calls
TurnHead ==
  /\ Added(1).role = "user" /\ Added(1).content = turn.content
  /\ Added(2).role = "assistant"
  /\ Len(Added(2).toolCalls) = Len(turn.response.toolCalls)

\* executions the turn has started
StartedInTurn == Len(executions) - turn.startExecs

\* every execution but the newest has settled
EarlierSettled ==
  \A e \in 1..(Len(executions) - 1) : executions[e].state # "running"

\* C26: at every point of a sendMessage turn the transcript and the calls
\* made show the order user message, first completion, assistant message with
\* the calls, then per call its execution and then its tool message (no call
\* is started before the message of the call before it is appended), second
\* completion, final assistant message; n calls give exactly n tool messages,
\* the i-th with the id of the i-th call.
C26_TurnOrder ==
  (turn.op = "sendMessage" /\ turn.status \in {"running", "returned"})
    => LET n == Len(turn.response.toolCalls)
           added == Len(Messages) - turn.startLen
       IN CASE pc = "await1" ->
                 /\ added = 1 /\ Added(1).role = "user"
                 /\ turn.completes = 1 /\ StartedInTurn = 0
            [] pc = "tools" ->
                 /\ turn.i \in 1..n
                 /\ added = 1 + turn.i
                 /\ TurnHead /\ ToolMessagesInOrder(turn.i - 1)
                 /\ turn.completes = 1
                 /\ StartedInTurn <= turn.i /\ EarlierSettled
            [] pc = "await2" ->
                 /\ n > 0 /\ added = 2 + n
                 /\ TurnHead /\ ToolMessagesInOrder(n)
                 /\ turn.completes = 2
                 /\ StartedInTurn <= n
                 /\ \A e \in 1..Len(executions) : executions[e].state # "running"
            [] pc = "idle" /\ n = 0 ->
                 /\ added = 2 /\ Added(1).role = "user"
                 /\ Added(2).role = "assistant" /\ turn.completes = 1
            [] pc = "idle" /\ n > 0 ->
                 /\ added = 3 + n
                 /\ TurnHead /\ ToolMessagesInOrder(n)
                 /\ Added(3 + n).role = "assistant"
                 /\ Added(3 + n).toolCalls = << >>
                 /\ turn.completes = 2 /\ StartedInTurn <= n
            [] OTHER -> TRUE

\* a returned turn of two calls, one executed to completion and one not
C26_Witness ==
  /\ SendReturned /\ pc = "idle"
  /\ Len(turn.response.toolCalls) = 2
  /\ Len(turn.outcomes) = 2 /\ turn.outcomes[1] # turn.outcomes[2]
  /\ Added(3).toolResults[1].id # Added(4).toolResults[1].id

\* the first completion has returned calls of which one does not decode
UndecodableArrives ==
  /\ turn.op = "sendMessage" /\ pc = "await1"
  /\ client.cpc = "done" /\ client.ret.kind = "ok"
  /\ \E i \in 1..Len(client.ret.response.toolCalls) :
       ~JSONparse(client.ret.response.toolCalls[i].function.arguments).ok

\* C27: when the first completion's response holds a tool call whose
\* argument string does not decode, the step that handles the response fails
\* sendMessage: the transcript stays at the turn's user message, no tool is
\* executed and no second completion is requested.
C27_UndecodableFailsTurn ==
  [][UndecodableArrives
       => /\ turn'.status = "failed" /\ turn'.error = SyntaxErrorMessage
          /\ Messages' = Messages
          /\ Len(Messages) = turn.startLen + 1 /\ Added(1).role = "user"
          /\ executions' = executions /\ Len(executions) = turn.startExecs
          /\ exec' = exec
          /\ pc' = "idle" /\ client' = IdleClient
          /\ turn'.completes = 1]_vars

\* a turn that failed on a response of two calls
C27_Witness ==
  /\ turn.op = "sendMessage" /\ turn.status = "failed"
  /\ turn.error = SyntaxErrorMessage
  /\ ops = 1 /\ asked = 2
  /\ Len(Messages) = turn.startLen + 1

\* the text sub occurs in the text s
Contains(s, sub) ==
  \E i \in 1..(Len(s) - Len(sub) + 1) : SubSeq(s, i, i + Len(sub) - 1) = sub

\* the request body's message at transcript position i shows the text
Shows(i, message) ==
  LET text == RequestBody(client.payload)[i]
  IN /\ "content" \in DOMAIN text
     /\ Contains(text["content"], message)

\* C28: while the second completion of a turn is in flight, the request body
\* shows, in the message of every tool call whose execution did not complete,
\* the failure message the transcript records for that call.
C28_FailureReachesModel ==
  (turn.op = "sendMessage" /\ pc = "await2")
    => \A j \in 1..Len(turn.outcomes) :
         turn.outcomes[j] # "completed"
           => /\ Added(2 + j).toolResults[1].error # Undefined
              /\ Shows(turn.startLen + 2 + j, Added(2 + j).toolResults[1].error)

\* the waits made so far are 2^k seconds after failed attempt k
WaitsDouble ==
  \A k \in 1..Len(client.delays) : client.delays[k] = (2 ^ k) * 1000

\* C29: in every state of a complete call the k-th wait is 2^k seconds and
\* follows the k-th request, there is no wait before the first request, and
\* when the call is over no wait has followed its last request.
C29_BackoffBetweenAttempts ==
  /\ WaitsDouble
  /\ \A k \in 1..(Len(client.delays) - 1) : client.delays[k] < client.delays[k + 1]
  /\ Len(client.delays) <= client.requests
  /\ client.cpc = "done" => Len(client.delays) < client.requests

\* the text of the error names as many attempts as requests were made
NamesRequestsMade ==
  client.ret.error =
    "Failed to complete with Groq after " \o ToString(client.requests)
      \o " attempts: " \o OrElse(client.lastError, "Unknown error")

\* C30: a complete call that has failed reports in its error an attempt
\* count equal to the number of HTTP requests it made.
C30_AttemptCountIsRequests ==
  (client.cpc = "done" /\ client.ret.kind = "error") => NamesRequestsMade

\* the lines of the body received so far that a newline has ended
CompleteLines(text) ==
  LET lines == split(text) IN SubSeq(lines, 1, Len(lines) - 1)

TerminatorLine == "data: " \o Terminator

\* the text deltas of the event lines, in order, up to the terminator line;
\* a line that is no event with a text delta gives nothing
RECURSIVE FragmentsOf(_)
FragmentsOf(lines) ==
  IF Len(lines) = 0 THEN << >>
  ELSE IF Head(lines) = TerminatorLine THEN << >>
  ELSE IF \E text \in Texts : Head(lines) = "data: " \o EventJson(text)
  THEN <<CHOOSE text \in Texts : Head(lines) = "data: " \o EventJson(text)>>
         \o FragmentsOf(Tail(lines))
  ELSE FragmentsOf(Tail(lines))

Terminated(text) ==
  \E i \in 1..Len(CompleteLines(text)) : CompleteLines(text)[i] = TerminatorLine

\* C31: the fragments yielded are, in order, text deltas of the event lines
\* received, none from after the terminator line; a line that is not valid
\* JSON yields nothing and the lines after it are still yielded: whenever
\* the parser waits for a read it has not seen the terminator and has
\* yielded every delta of the lines received, and so it has when the
\* sequence has ended.
C31_TerminatorEndsMalformedSkipped ==
  (Streamed /\ turn.stream.reader # "none")
    => LET expected == FragmentsOf(CompleteLines(turn.stream.received))
       IN /\ IsPrefix(turn.stream.yielded, expected)
          /\ pc = "streamRead"
               => /\ turn.stream.yielded = expected
                  /\ ~Terminated(turn.stream.received)
          /\ turn.status = "returned" => turn.stream.yielded = expected

\* a malformed line, then an event, then the terminator with an event after it
C31_Witness ==
  /\ Streamed /\ turn.status = "returned"
  /\ turn.stream.received =
       "data: {\"choices\"\n\n" \o Event("b") \o TerminatorLine \o "\n\n" \o Event("a")
  /\ turn.stream.yielded = <<"b">>

\* C32: when the fragment sequence has ended, every event line with a text
\* delta that the body held before its end (or before the terminator) has
\* been yielded exactly once and in order, a last line without a newline
\* after it included, however the body came in chunks.
C32_EveryEventYieldedOnce ==
  (Streamed /\ turn.status = "returned")
    => turn.stream.yielded = FragmentsOf(split(turn.stream.received))

\* C33: of a streamMessage turn the transcript holds the user message alone
\* while the fragments are coming and after the stream failed to open, raised
\* midway or was abandoned by the consumer; the assistant message is there
\* only when the sequence has ended.
C33_AssistantOnlyAfterNaturalEnd ==
  Streamed
    => /\ Len(Messages) >= turn.startLen + 1
       /\ Added(1).role = "user" /\ Added(1).content = turn.content
       /\ turn.status \in {"running", "failed", "abandoned"}
            => Len(Messages) = turn.startLen + 1
       /\ turn.status = "returned"
            => /\ Len(Messages) = turn.startLen + 2
               /\ Added(2).role = "assistant"
               /\ turn.stream.reader = "released"

\* the stream raised after a fragment had been handed out
C33_Witness ==
  /\ Streamed /\ turn.status = "failed"
  /\ turn.error = "read failed"
  /\ Len(turn.stream.yielded) > 0
  /\ Len(Messages) = turn.startLen + 1

\* the token counts recorded on the assistant messages of a transcript
RECURSIVE RecordedTokens(_)
RecordedTokens(messages) ==
  IF Len(messages) = 0 THEN [input |-> 0, output |-> 0]
  ELSE LET m == Head(messages)
           rest == RecordedTokens(Tail(messages))
       IN IF m.role = "assistant" /\ Len(m.tokens) > 0
          THEN [input |-> rest.input + m.tokens[1].input,
                output |-> rest.output + m.tokens[1].output]
          ELSE rest

\* C34: whenever no turn is in flight, the input and output counters of the
\* conversation equal the sums of the token counts recorded on the assistant
\* messages of its transcript.
C34_CountersMatchMessages ==
  pc = "idle" => conversation.totalTokens = RecordedTokens(Messages)

\* a sendMessage turn that has pushed its user message and is not over
InFlight(t) == t.op = "sendMessage" /\ t.status = "running"

\* messages the turn of the running request has pushed so far
AppendedSoFar ==
  CASE pc = "await1" -> 1
    [] pc = "tools" -> 1 + turn.i
    [] pc = "await2" -> 2 + Len(turn.response.toolCalls)
    [] OTHER -> 0

\* the first completion request of a turn holds, before the turn's own user
\* message, no message of another turn that is still in flight
RequestHoldsOwnTurnOnly ==
  (InFlight(turn) /\ pc = "await1")
    => /\ Len(client.payload.messages) = turn.startLen + 1
       /\ ~(/\ InFlight(parked.turn)
            /\ parked.turn.conversationId = turn.conversationId
            /\ parked.turn.startLen < turn.startLen)

\* a turn in flight pushes its next message right after its last one
AppendsContiguously ==
  (/\ InFlight(turn) /\ parked' = parked
   /\ conversation.id = turn.conversationId /\ conversation'.id = conversation.id
   /\ Len(Messages') > Len(Messages))
    => Len(Messages) = turn.startLen + AppendedSoFar

\* C35: with two /message requests handled at the same time on the current
\* session, a turn's completion request holds no message of the other turn
\* in flight, and the messages a turn appends are contiguous in the
\* transcript.
C35_ConcurrentTurnsNotInterleaved ==
  [](RequestHoldsOwnTurnOnly) /\ [][AppendsContiguously]_vars

\* the running request's turn has returned, it began on a conversation that
\* the other request has cleared since, and nothing else was called
ClearedUnderneath ==
  /\ turn.op \in {"sendMessage", "streamMessage"} /\ turn.status = "returned"
  /\ parked.turn.op = "clear"
  /\ turn.conversationId # conversation.id

\* C36: when clear() has replaced the conversation while a sendMessage or
\* streamMessage turn was suspended, the new conversation holds, once the
\* turn is over, no message and no token counts.
C36_ClearedConversationStaysEmpty ==
  ClearedUnderneath
    => /\ Messages = << >>
       /\ conversation.totalTokens = [input |-> 0, output |-> 0]

\* a body that decodes to a config with a usable credential
UsableBody(body) ==
  /\ Len(body) > 0
  /\ Len(body[1]) > 0
  /\ Len(body[1][1].groq) > 0
  /\ body[1][1].groq[1].token \notin {Undefined, Null, ""}

PostSessionStep == turn'.op = "POST /session" /\ ops' = ops + 1

\* C37: a POST /session whose body does not decode to a usable config is
\* answered with success false and leaves conversation, tools and executions
\* of the current session as they were; any other is answered with success
\* true and leaves a new conversation whose transcript is the seeded system
\* message alone, with both counters at zero.
C37_FailedPostKeepsSession ==
  [][PostSessionStep
       => IF UsableBody(turn'.content)
          THEN /\ turn'.result[1].success
               /\ conversation'.id # conversation.id
               /\ turn'.result[1].sessionId = conversation'.id
               /\ Len(Messages') = 1
               /\ Messages'[1].role = "system"
               /\ Messages'[1].content = systemPrompt
               /\ conversation'.totalTokens = [input |-> 0, output |-> 0]
               /\ executions' = << >>
          ELSE /\ ~turn'.result[1].success
               /\ conversation' = conversation
               /\ tools' = tools
               /\ executions' = executions
               /\ pc' = pc]_vars

\* a refused POST on a session that has a turn and tokens behind it
C37_Witness ==
  /\ turn.op = "POST /session" /\ ~turn.result[1].success
  /\ Len(turn.content) > 0
  /\ Len(Messages) >= 3
  /\ conversation.totalTokens.input > 0

Names(ts) == {getTools(ts)[i] : i \in 1..Len(getTools(ts))}

\* the descriptors handed to the model client for a name
DescriptorsOf(ts, name) ==
  {i \in 1..Len(getGroqAITools(ts)) : getGroqAITools(ts)[i].name = name}

RegisterStep == turn'.op = "registerTool" /\ ops' = ops + 1

\* an executeTool called for the name that was registered last
ExecuteRegisteredStep ==
  /\ turn.op = "registerTool" /\ turn'.op = "executeTool"
  /\ exec'.name = turn.result[1].name

\* what registerTool(tool) leaves: no error, every name listed once, one
\* descriptor per name, that of the tool's name made from the tool, the
\* other names as they were
RegisteredOnce ==
  LET tool == turn'.result[1]
  IN /\ turn'.status = "returned"
     /\ Names(tools') = Names(tools) \cup {tool.name}
     /\ Len(getTools(tools')) = Cardinality(Names(tools'))
     /\ Len(getGroqAITools(tools')) = Cardinality(Names(tools'))
     /\ \A name \in Names(tools') : Cardinality(DescriptorsOf(tools', name)) = 1
     /\ \A i \in DescriptorsOf(tools', tool.name) :
          getGroqAITools(tools')[i].parameters = zodToJsonSchema(tool.shape)
     /\ \A name \in Names(tools) \ {tool.name} :
          \A i \in DescriptorsOf(tools', name) :
            \E j \in DescriptorsOf(tools, name) :
              getGroqAITools(tools')[i] = getGroqAITools(tools)[j]

\* execute creates one execution, of the tool registered last: its
\* parameters are checked against that tool's schema
RunsLastRegistered ==
  LET tool == turn.result[1]
      n == Len(executions')
  IN /\ n = Len(executions) + 1
     /\ executions'[n].name = tool.name
     /\ executions'[n].ran = ParseOk(tool, executions'[n].input)

\* C38: every registerTool call, under a new name or one that is taken,
\* succeeds and leaves each registered name listed once with one descriptor,
\* made from the tool registered last under that name, and an execute of
\* that name then runs that tool.
C38_LastRegistrationWins ==
  [][(RegisterStep => RegisteredOnce)
       /\ (ExecuteRegisteredStep => RunsLastRegistered)]_vars

\* readFile was registered again without a required parameter and then
\* executed without parameters
C38_Witness ==
  /\ turn.op = "executeTool" /\ turn.status = "returned"
  /\ Len(turn.result) = 1
  /\ turn.result[1].name = "readFile"
  /\ turn.result[1].input = {}
  /\ turn.result[1].state = "completed"

\* C39: in handleMessage the main goroutine's send on done is always
\* received, so it never blocks forever; the progress goroutine always
\* terminates, whether SendMessage returned a response or an error and
\* wherever the ticks fall; and once handleMessage has returned no progress
\* goroutine is left
C39_IndicatorAlwaysTerminates ==
  /\ [](tui.at \in {"prompt", "exited"} => tui.indicator = "none")
  /\ (tui.at = "notify") ~> (tui.at = "prompt")
  /\ (tui.indicator # "none") ~> (tui.indicator = "none")

\* handleMessage has returned after a failed request during which a dot was
\* printed
C39_Witness ==
  /\ tui.at = "prompt" /\ tui.said = "Error" /\ tui.err /\ tui.dotted
  /\ tui.indicator = "none"
  /\ turn.op = "sendMessage" /\ turn.status = "failed"

====
